---- MODULE Spec2Model ----
(***************************************************************************)
(* A model of the validiter adapter chain: every adapter is an iterator    *)
(* that owns its upstream and answers next() with None, Some(Ok(v)) or     *)
(* Some(Err(e)).  A pipeline is a sequence of adapter states, innermost     *)
(* first; one pull of the outermost adapter calls next() on every stage.   *)
(***************************************************************************)
EXTENDS Integers, Sequences, FiniteSets, TLC

VARIABLES chain, flow, calls

vars == <<chain, flow, calls>>

(***************************************************************************)
(* Bounds of the model.                                                    *)
(***************************************************************************)
MaxPulls == 5
MaxElem == 2
MaxCount == 3
MaxWindow == 2
\* the longest line of a nested input
MaxRow == 2
\* the width of usize, and the largest usize
UsizeBits == 2
UsizeMax == 2 ^ UsizeBits - 1

(***************************************************************************)
(* Values.  Elements are f64-like: the integers 0..MaxElem and NaN, which   *)
(* is neither equal to nor ordered with anything, itself included.         *)
(***************************************************************************)
NaN == -1
Elems == (0 .. MaxElem) \cup {NaN}

PartialLe(a, b) == a # NaN /\ b # NaN /\ a <= b
PartialLt(a, b) == a # NaN /\ b # NaN /\ a < b
PartialEq(a, b) == a # NaN /\ b # NaN /\ a = b

None == <<>>
Some(x) == <<x>>
Ok(v) == [tag |-> "Ok", val |-> v]
Err(e) == [tag |-> "Err", err |-> e]
\* an element of a plain iterator, not wrapped in a Result
Raw(v) == [tag |-> "Raw", val |-> v]

IsSome(o) == o # None
IsOk(o) == IsSome(o) /\ o[1].tag = "Ok"
IsErr(o) == IsSome(o) /\ o[1].tag = "Err"
IsRaw(o) == IsSome(o) /\ o[1].tag = "Raw"

(***************************************************************************)
(* ValidErr.  A message is the description literal of the writer together  *)
(* with the arguments the writer formats into it.                          *)
(***************************************************************************)
Msg(desc, args) == [desc |-> desc, args |-> args]

TooMany(val, msg) == [kind |-> "TooMany", element |-> Some(val), msg |-> Some(msg)]
TooFew(msg) == [kind |-> "TooFew", element |-> None, msg |-> Some(msg)]
OutOfBounds(val) == [kind |-> "OutOfBounds", element |-> Some(val), msg |-> None]
Invalid(val, msg) == [kind |-> "Invalid", element |-> Some(val), msg |-> Some(msg)]
BrokenConstant(val) == [kind |-> "BrokenConstant", element |-> Some(val), msg |-> None]
LookBackFailed(val, msg) == [kind |-> "LookBackFailed", element |-> Some(val), msg |-> Some(msg)]
WithElement(val, desc) == [kind |-> "WithElement", element |-> Some(val), msg |-> Some(Msg(desc, <<>>))]
InvalidItem(val) == [kind |-> "InvalidItem", element |-> Some(val), msg |-> None]
Description(desc) == [kind |-> "Description", element |-> None, msg |-> Some(Msg(desc, <<>>))]
Lifted == [kind |-> "Lifted", element |-> None, msg |-> None]
Mapped(desc) == [kind |-> "Mapped", element |-> None, msg |-> Some(Msg(desc, <<>>))]

\* the error a user factory of the validation_adapters builds from its arguments
FactoryErr(factory, elem, args) ==
    [kind |-> "Factory", element |-> elem, msg |-> Some(Msg(factory, args))]

(***************************************************************************)
(* The closures handed to the adapters, as the tests of the crate write    *)
(* them.                                                                   *)
(***************************************************************************)
Validations == {"even", "is_zero"}
Validation(f, v) ==
    CASE f = "even" -> v # NaN /\ v % 2 = 0
      [] f = "is_zero" -> PartialEq(v, 0)

Extractors == {"id", "parity"}
Extractor(m, v) ==
    CASE m = "id" -> v
      [] m = "parity" -> IF v = NaN THEN NaN ELSE v % 2

LookBackTests == {"lt", "eq"}
LookBackTest(f, a, b) ==
    CASE f = "lt" -> PartialLt(a, b)
      [] f = "eq" -> PartialEq(a, b)

Call(fn, args) == [fn |-> fn, args |-> args]
Ret(self, ret, cs) == [self |-> self, ret |-> ret, calls |-> cs]

(***************************************************************************)
(* std::iter::Enumerate, held by the validation_adapters variants: the     *)
(* index counts every item the upstream returns.                           *)
(***************************************************************************)
Enumerate_next(count, item) ==
    IF item = None THEN [count |-> count, i |-> 0] ELSE [count |-> count + 1, i |-> count]

(***************************************************************************)
(* at_most                                                                 *)
(***************************************************************************)
AtMost_new(max_count, err_msg) ==
    [kind |-> "AtMost", position |-> 0, max_count |-> max_count, msg_writer |-> err_msg]

\* as AtMost_next, with the last arms merged into one that ends the iteration
AtMost_next_DropsErr(self, item) ==
    IF IsOk(item)
    THEN IF self.position < self.max_count
         THEN Ret([self EXCEPT !.position = @ + 1], item, <<>>)
         ELSE LET val == item[1].val
                  args == <<val, self.max_count>>
              IN Ret(self, Some(Err(TooMany(val, Msg(self.msg_writer, args)))),
                     <<Call("msg_writer", args)>>)
    ELSE Ret(self, None, <<>>)

\* as AtMost_next, with a rejection that arrives past the cap relabelled TooMany
AtMost_next_CapsRejected(self, item) ==
    IF IsOk(item) \/ (IsErr(item) /\ item[1].err.element # None
                      /\ self.position >= self.max_count)
    THEN IF self.position < self.max_count
         THEN Ret([self EXCEPT !.position = @ + 1], item, <<>>)
         ELSE LET val == CHOOSE v \in Elems :
                            \/ IsOk(item) /\ v = item[1].val
                            \/ IsErr(item) /\ Some(v) = item[1].err.element
                  args == <<val, self.max_count>>
              IN Ret(self, Some(Err(TooMany(val, Msg(self.msg_writer, args)))),
                     <<Call("msg_writer", args)>>)
    ELSE Ret(self, item, <<>>)

\* as AtMost_next, with position advanced for a rejected item as well
AtMost_next_CountsErrs(self, item) ==
    IF IsOk(item)
    THEN IF self.position < self.max_count
         THEN Ret([self EXCEPT !.position = @ + 1], item, <<>>)
         ELSE LET val == item[1].val
                  args == <<val, self.max_count>>
              IN Ret(self, Some(Err(TooMany(val, Msg(self.msg_writer, args)))),
                     <<Call("msg_writer", args)>>)
    ELSE IF IsErr(item) THEN Ret([self EXCEPT !.position = @ + 1], item, <<>>)
    ELSE Ret(self, item, <<>>)

AtMost_next(self, item) ==
    IF IsOk(item)
    THEN IF self.position < self.max_count
         THEN Ret([self EXCEPT !.position = @ + 1], item, <<>>)
         ELSE LET val == item[1].val
                  args == <<val, self.max_count>>
              IN Ret(self, Some(Err(TooMany(val, Msg(self.msg_writer, args)))),
                     <<Call("msg_writer", args)>>)
    ELSE Ret(self, item, <<>>)

AtMostIter_new(max_count, factory) ==
    [kind |-> "AtMostIter", count |-> 0, max_count |-> max_count, counter |-> 0,
     factory |-> factory]

\* as AtMostIter_next, with > for >= in the comparison with the cap
AtMostIter_next_OffByOne(self, item) ==
    LET e == Enumerate_next(self.count, item)
        s == [self EXCEPT !.count = e.count]
    IN IF IsOk(item)
       THEN IF s.counter > s.max_count
            THEN LET val == item[1].val
                 IN Ret(s, Some(Err(FactoryErr(s.factory, Some(val), <<e.i, val>>))),
                        <<Call("factory", <<e.i, val>>)>>)
            ELSE Ret([s EXCEPT !.counter = @ + 1], item, <<>>)
       ELSE Ret(s, item, <<>>)

\* as AtMostIter_next, with the index of Enumerate kept back on a rejected item
AtMostIter_next_IndexSkipsErrs(self, item) ==
    LET e == Enumerate_next(self.count, item)
        s == [self EXCEPT !.count = e.count]
    IN IF IsOk(item)
       THEN IF s.counter >= s.max_count
            THEN LET val == item[1].val
                 IN Ret(s, Some(Err(FactoryErr(s.factory, Some(val), <<e.i, val>>))),
                        <<Call("factory", <<e.i, val>>)>>)
            ELSE Ret([s EXCEPT !.counter = @ + 1], item, <<>>)
       ELSE Ret(self, item, <<>>)

\* as AtMostIter_next, with counter advanced for the element it rejects
AtMostIter_next_CountsRejected(self, item) ==
    LET e == Enumerate_next(self.count, item)
        s == [self EXCEPT !.count = e.count]
    IN IF IsOk(item)
       THEN IF s.counter >= s.max_count
            THEN LET val == item[1].val
                 IN Ret([s EXCEPT !.counter = @ + 1],
                        Some(Err(FactoryErr(s.factory, Some(val), <<e.i, val>>))),
                        <<Call("factory", <<e.i, val>>)>>)
            ELSE Ret([s EXCEPT !.counter = @ + 1], item, <<>>)
       ELSE Ret(s, item, <<>>)

AtMostIter_next(self, item) ==
    LET e == Enumerate_next(self.count, item)
        s == [self EXCEPT !.count = e.count]
    IN IF IsOk(item)
       THEN IF s.counter >= s.max_count
            THEN LET val == item[1].val
                 IN Ret(s, Some(Err(FactoryErr(s.factory, Some(val), <<e.i, val>>))),
                        <<Call("factory", <<e.i, val>>)>>)
            ELSE Ret([s EXCEPT !.counter = @ + 1], item, <<>>)
       ELSE Ret(s, item, <<>>)

(***************************************************************************)
(* at_least                                                                *)
(***************************************************************************)
AtLeast_new(min_count, err_msg) ==
    [kind |-> "AtLeast", min_count |-> min_count, counter |-> 0, msg_writer |-> err_msg]

\* as AtLeast_next, with > for >= in the comparison with the minimum
AtLeast_next_OffByOne(self, item) ==
    IF IsOk(item)
    THEN Ret([self EXCEPT !.counter = @ + 1], item, <<>>)
    ELSE IF item = None
    THEN IF self.counter > self.min_count
         THEN Ret(self, None, <<>>)
         ELSE LET args == <<self.counter, self.min_count>>
              IN Ret([self EXCEPT !.counter = self.min_count],
                     Some(Err(TooFew(Msg(self.msg_writer, args)))),
                     <<Call("msg_writer", args)>>)
    ELSE Ret(self, item, <<>>)

\* as AtLeast_next, without the assignment of min_count to counter
AtLeast_next_NoLatch(self, item) ==
    IF IsOk(item)
    THEN Ret([self EXCEPT !.counter = @ + 1], item, <<>>)
    ELSE IF item = None
    THEN IF self.counter >= self.min_count
         THEN Ret(self, None, <<>>)
         ELSE LET args == <<self.counter, self.min_count>>
              IN Ret(self,
                     Some(Err(TooFew(Msg(self.msg_writer, args)))),
                     <<Call("msg_writer", args)>>)
    ELSE Ret(self, item, <<>>)

\* as AtLeast_next, with None returned at the end when nothing was counted
AtLeast_next_EmptyOk(self, item) ==
    IF IsOk(item)
    THEN Ret([self EXCEPT !.counter = @ + 1], item, <<>>)
    ELSE IF item = None
    THEN IF self.counter >= self.min_count \/ self.counter = 0
         THEN Ret(self, None, <<>>)
         ELSE LET args == <<self.counter, self.min_count>>
              IN Ret([self EXCEPT !.counter = self.min_count],
                     Some(Err(TooFew(Msg(self.msg_writer, args)))),
                     <<Call("msg_writer", args)>>)
    ELSE Ret(self, item, <<>>)

AtLeast_next(self, item) ==
    IF IsOk(item)
    THEN Ret([self EXCEPT !.counter = @ + 1], item, <<>>)
    ELSE IF item = None
    THEN IF self.counter >= self.min_count
         THEN Ret(self, None, <<>>)
         ELSE LET args == <<self.counter, self.min_count>>
              IN Ret([self EXCEPT !.counter = self.min_count],
                     Some(Err(TooFew(Msg(self.msg_writer, args)))),
                     <<Call("msg_writer", args)>>)
    ELSE Ret(self, item, <<>>)

AtLeastIter_new(min_count, factory) ==
    [kind |-> "AtLeastIter", min_count |-> min_count, counter |-> 0,
     enumeration_counter |-> 0, factory |-> factory]

\* as AtLeastIter_next, with the count compared on every item that is not Ok
AtLeastIter_next_Eager(self, item) ==
    LET r == IF IsOk(item)
             THEN Ret([self EXCEPT !.counter = @ + 1], item, <<>>)
             ELSE IF self.counter >= self.min_count
                  THEN Ret(self, item, <<>>)
                  ELSE LET args == <<self.enumeration_counter>>
                       IN Ret([self EXCEPT !.counter = self.min_count],
                              Some(Err(FactoryErr(self.factory, None, args))),
                              <<Call("factory", args)>>)
    IN Ret([r.self EXCEPT !.enumeration_counter = @ + 1], r.ret, r.calls)

\* as AtLeastIter_next, with counter advanced for a rejected item as well
AtLeastIter_next_CountsErrs(self, item) ==
    LET r == IF IsSome(item)
             THEN Ret([self EXCEPT !.counter = @ + 1], item, <<>>)
             ELSE IF self.counter >= self.min_count
                  THEN Ret(self, None, <<>>)
                  ELSE LET args == <<self.enumeration_counter>>
                       IN Ret([self EXCEPT !.counter = self.min_count],
                              Some(Err(FactoryErr(self.factory, None, args))),
                              <<Call("factory", args)>>)
    IN Ret([r.self EXCEPT !.enumeration_counter = @ + 1], r.ret, r.calls)

\* as AtLeastIter_next, with the factory handed the count of the Ok items
AtLeastIter_next_HandsCounter(self, item) ==
    LET r == IF IsOk(item)
             THEN Ret([self EXCEPT !.counter = @ + 1], item, <<>>)
             ELSE IF item = None
             THEN IF self.counter >= self.min_count
                  THEN Ret(self, None, <<>>)
                  ELSE LET args == <<self.counter>>
                       IN Ret([self EXCEPT !.counter = self.min_count],
                              Some(Err(FactoryErr(self.factory, None, args))),
                              <<Call("factory", args)>>)
             ELSE Ret(self, item, <<>>)
    IN Ret([r.self EXCEPT !.enumeration_counter = @ + 1], r.ret, r.calls)

AtLeastIter_next(self, item) ==
    LET r == IF IsOk(item)
             THEN Ret([self EXCEPT !.counter = @ + 1], item, <<>>)
             ELSE IF item = None
             THEN IF self.counter >= self.min_count
                  THEN Ret(self, None, <<>>)
                  ELSE LET args == <<self.enumeration_counter>>
                       IN Ret([self EXCEPT !.counter = self.min_count],
                              Some(Err(FactoryErr(self.factory, None, args))),
                              <<Call("factory", args)>>)
             ELSE Ret(self, item, <<>>)
    IN Ret([r.self EXCEPT !.enumeration_counter = @ + 1], r.ret, r.calls)

(***************************************************************************)
(* between                                                                 *)
(***************************************************************************)
Between_new(lower_bound, upper_bound) ==
    [kind |-> "Between", lower_bound |-> lower_bound, upper_bound |-> upper_bound]

\* as Between_next, with < for <= in the comparison with the upper bound
Between_next_Exclusive(self, item) ==
    IF IsOk(item)
    THEN LET val == item[1].val
         IN IF PartialLe(self.lower_bound, val) /\ PartialLt(val, self.upper_bound)
            THEN Ret(self, item, <<>>)
            ELSE Ret(self, Some(Err(OutOfBounds(val))), <<>>)
    ELSE Ret(self, item, <<>>)

\* as Between_next, with the lower bound in the rejection in place of the element
Between_next_ReportsBound(self, item) ==
    IF IsOk(item)
    THEN LET val == item[1].val
         IN IF PartialLe(self.lower_bound, val) /\ PartialLe(val, self.upper_bound)
            THEN Ret(self, item, <<>>)
            ELSE Ret(self, Some(Err(OutOfBounds(self.lower_bound))), <<>>)
    ELSE Ret(self, item, <<>>)

Between_next(self, item) ==
    IF IsOk(item)
    THEN LET val == item[1].val
         IN IF PartialLe(self.lower_bound, val) /\ PartialLe(val, self.upper_bound)
            THEN Ret(self, item, <<>>)
            ELSE Ret(self, Some(Err(OutOfBounds(val))), <<>>)
    ELSE Ret(self, item, <<>>)

\* validation_adapters/between.rs: the rejection carries the description
BetweenDesc_new(lower_bound, upper_bound, desc) ==
    [kind |-> "BetweenDesc", lower_bound |-> lower_bound, upper_bound |-> upper_bound,
     desc |-> desc]

BetweenDesc_next(self, item) ==
    IF IsOk(item)
    THEN LET val == item[1].val
         IN IF PartialLe(self.lower_bound, val) /\ PartialLe(val, self.upper_bound)
            THEN Ret(self, item, <<>>)
            ELSE Ret(self, Some(Err(WithElement(val, self.desc))), <<>>)
    ELSE Ret(self, item, <<>>)

(***************************************************************************)
(* ensure                                                                  *)
(***************************************************************************)
Ensure_new(validation, err_msg) ==
    [kind |-> "Ensure", validation |-> validation, msg_writer |-> err_msg]

\* as Ensure_next, with the element of a rejection validated as well
Ensure_next_Revalidates(self, item) ==
    IF IsSome(item) /\ (IsOk(item) \/ item[1].err.element # None)
    THEN LET val == IF IsOk(item) THEN item[1].val ELSE item[1].err.element[1]
         IN IF Validation(self.validation, val)
            THEN Ret(self, item, <<Call("validation", <<val>>)>>)
            ELSE Ret(self, Some(Err(Invalid(val, Msg(self.msg_writer, <<val>>)))),
                     <<Call("validation", <<val>>), Call("msg_writer", <<val>>)>>)
    ELSE Ret(self, item, <<>>)

\* as Ensure_next, with the iteration ended at an element that fails
Ensure_next_Stops(self, item) ==
    IF IsOk(item)
    THEN LET val == item[1].val
         IN IF Validation(self.validation, val)
            THEN Ret(self, item, <<Call("validation", <<val>>)>>)
            ELSE Ret(self, None, <<Call("validation", <<val>>)>>)
    ELSE Ret(self, item, <<>>)

Ensure_next(self, item) ==
    IF IsOk(item)
    THEN LET val == item[1].val
         IN IF Validation(self.validation, val)
            THEN Ret(self, item, <<Call("validation", <<val>>)>>)
            ELSE Ret(self, Some(Err(Invalid(val, Msg(self.msg_writer, <<val>>)))),
                     <<Call("validation", <<val>>), Call("msg_writer", <<val>>)>>)
    ELSE Ret(self, item, <<>>)

EnsureIter_new(validation, factory) ==
    [kind |-> "EnsureIter", count |-> 0, validation |-> validation, factory |-> factory]

\* as EnsureIter_next, with the two arms of the match swapped
EnsureIter_next_Swapped(self, item) ==
    LET e == Enumerate_next(self.count, item)
        s == [self EXCEPT !.count = e.count]
    IN IF IsOk(item)
       THEN LET val == item[1].val
            IN IF ~Validation(s.validation, val)
               THEN Ret(s, item, <<Call("validation", <<val>>)>>)
               ELSE Ret(s, Some(Err(FactoryErr(s.factory, Some(val), <<e.i, val>>))),
                        <<Call("validation", <<val>>), Call("factory", <<e.i, val>>)>>)
       ELSE Ret(s, item, <<>>)

EnsureIter_next(self, item) ==
    LET e == Enumerate_next(self.count, item)
        s == [self EXCEPT !.count = e.count]
    IN IF IsOk(item)
       THEN LET val == item[1].val
            IN IF Validation(s.validation, val)
               THEN Ret(s, item, <<Call("validation", <<val>>)>>)
               ELSE Ret(s, Some(Err(FactoryErr(s.factory, Some(val), <<e.i, val>>))),
                        <<Call("validation", <<val>>), Call("factory", <<e.i, val>>)>>)
       ELSE Ret(s, item, <<>>)

\* src/validate.rs: the predicate check applied to a plain iterator
Validate_new(validation) == [kind |-> "Validate", validation |-> validation]

Validate_next(self, item) ==
    IF IsSome(item)
    THEN LET element == item[1].val
         IN IF Validation(self.validation, element)
            THEN Ret(self, Some(Ok(element)), <<Call("validation", <<element>>)>>)
            ELSE Ret(self, Some(Err(InvalidItem(element))),
                     <<Call("validation", <<element>>)>>)
    ELSE Ret(self, None, <<>>)

\* validatable.rs: validate() of the crate, the source adapter that wraps
\* every element of a plain iterator in Ok
Validatable_new == [kind |-> "Validatable"]

\* as Validatable_next, with an element that is not comparable rejected
Validatable_next_RejectsNaN(self, item) ==
    IF IsSome(item)
    THEN IF item[1].val = NaN
         THEN Ret(self, Some(Err(InvalidItem(item[1].val))), <<>>)
         ELSE Ret(self, Some(Ok(item[1].val)), <<>>)
    ELSE Ret(self, None, <<>>)

Validatable_next(self, item) ==
    IF IsSome(item)
    THEN Ret(self, Some(Ok(item[1].val)), <<>>)
    ELSE Ret(self, None, <<>>)

(***************************************************************************)
(* const_over                                                              *)
(***************************************************************************)
ConstOver_new(extractor) ==
    [kind |-> "ConstOver", stored_value |-> None, extractor |-> extractor]

\* as ConstOver_next, with the stored value replaced by that of a rejected element
ConstOver_next_Restores(self, item) ==
    IF IsOk(item)
    THEN LET val == item[1].val
             a == Extractor(self.extractor, val)
         IN IF self.stored_value # None
            THEN IF PartialEq(a, self.stored_value[1])
                 THEN Ret(self, item, <<Call("extractor", <<val>>)>>)
                 ELSE Ret([self EXCEPT !.stored_value = Some(a)],
                          Some(Err(BrokenConstant(val))),
                          <<Call("extractor", <<val>>)>>)
            ELSE Ret([self EXCEPT !.stored_value = Some(a)], item,
                     <<Call("extractor", <<val>>)>>)
    ELSE Ret(self, item, <<>>)

\* as ConstOver_next, with the stored value forgotten at a rejected input
ConstOver_next_ErrForgets(self, item) ==
    IF IsOk(item)
    THEN LET val == item[1].val
             a == Extractor(self.extractor, val)
         IN IF self.stored_value # None
            THEN IF PartialEq(a, self.stored_value[1])
                 THEN Ret(self, item, <<Call("extractor", <<val>>)>>)
                 ELSE Ret(self, Some(Err(BrokenConstant(val))),
                          <<Call("extractor", <<val>>)>>)
            ELSE Ret([self EXCEPT !.stored_value = Some(a)], item,
                     <<Call("extractor", <<val>>)>>)
    ELSE IF IsErr(item) THEN Ret([self EXCEPT !.stored_value = None], item, <<>>)
    ELSE Ret(self, item, <<>>)

ConstOver_next(self, item) ==
    IF IsOk(item)
    THEN LET val == item[1].val
             a == Extractor(self.extractor, val)
         IN IF self.stored_value # None
            THEN IF PartialEq(a, self.stored_value[1])
                 THEN Ret(self, item, <<Call("extractor", <<val>>)>>)
                 ELSE Ret(self, Some(Err(BrokenConstant(val))),
                          <<Call("extractor", <<val>>)>>)
            ELSE Ret([self EXCEPT !.stored_value = Some(a)], item,
                     <<Call("extractor", <<val>>)>>)
    ELSE Ret(self, item, <<>>)

ConstOverIter_new(extractor, factory) ==
    [kind |-> "ConstOverIter", count |-> 0, stored_value |-> None,
     extractor |-> extractor, factory |-> factory]

\* as ConstOverIter_next, with the reference set by the first input when
\* it is a rejection: to the extractor value of the element it carries, or
\* to 0 when it carries none
ConstOverIter_next_FirstInput(self, item) ==
    LET e == Enumerate_next(self.count, item)
        s == [self EXCEPT !.count = e.count]
    IN IF IsOk(item)
       THEN LET val == item[1].val
                extraction == Extractor(s.extractor, val)
            IN IF s.stored_value # None
               THEN IF PartialEq(extraction, s.stored_value[1])
                    THEN Ret(s, item, <<Call("extractor", <<val>>)>>)
                    ELSE LET args == <<e.i, val, extraction, s.stored_value[1]>>
                         IN Ret(s, Some(Err(FactoryErr(s.factory, Some(val), args))),
                                <<Call("extractor", <<val>>), Call("factory", args)>>)
               ELSE Ret([s EXCEPT !.stored_value = Some(extraction)], item,
                        <<Call("extractor", <<val>>)>>)
       ELSE IF IsErr(item) /\ s.stored_value = None
       THEN LET carried == item[1].err.element
                a == IF carried = None THEN 0
                     ELSE Extractor(s.extractor, carried[1])
            IN Ret([s EXCEPT !.stored_value = Some(a)], item, <<>>)
       ELSE Ret(s, item, <<>>)

ConstOverIter_next(self, item) ==
    LET e == Enumerate_next(self.count, item)
        s == [self EXCEPT !.count = e.count]
    IN IF IsOk(item)
       THEN LET val == item[1].val
                extraction == Extractor(s.extractor, val)
            IN IF s.stored_value # None
               THEN IF PartialEq(extraction, s.stored_value[1])
                    THEN Ret(s, item, <<Call("extractor", <<val>>)>>)
                    ELSE LET args == <<e.i, val, extraction, s.stored_value[1]>>
                         IN Ret(s, Some(Err(FactoryErr(s.factory, Some(val), args))),
                                <<Call("extractor", <<val>>), Call("factory", args)>>)
               ELSE Ret([s EXCEPT !.stored_value = Some(extraction)], item,
                        <<Call("extractor", <<val>>)>>)
       ELSE Ret(s, item, <<>>)

(***************************************************************************)
(* look_back                                                               *)
(***************************************************************************)
\* A::default() of the extracted type
Default == 0

LookBack_new(N, extractor, validation, err_msg) ==
    [kind |-> "LookBack", pos |-> 0, value_store |-> [i \in 1 .. N |-> Default],
     extractor |-> extractor, validation |-> validation, msg_writer |-> err_msg]

\* as LookBack_next, with the slot written last read in place of the slot at pos % N
LookBack_next_LastSlot(self, item) ==
    LET N == Len(self.value_store)
    IN IF N = 0 THEN Ret(self, item, <<>>)
       ELSE IF IsOk(item)
       THEN LET val == item[1].val
            IN IF self.pos >= N
               THEN LET cycle_index == self.pos % N
                        former == self.value_store[((self.pos - 1) % N) + 1]
                    IN IF LookBackTest(self.validation, former, val)
                       THEN Ret([self EXCEPT
                                   !.value_store[cycle_index + 1] =
                                       Extractor(self.extractor, val),
                                   !.pos = @ + 1],
                                item,
                                <<Call("validation", <<former, val>>),
                                  Call("extractor", <<val>>)>>)
                       ELSE Ret(self,
                                Some(Err(LookBackFailed(val,
                                    Msg(self.msg_writer, <<val, former>>)))),
                                <<Call("validation", <<former, val>>),
                                  Call("msg_writer", <<val, former>>)>>)
               ELSE Ret([self EXCEPT
                           !.value_store[self.pos + 1] = Extractor(self.extractor, val),
                           !.pos = @ + 1],
                        item, <<Call("extractor", <<val>>)>>)
       ELSE Ret(self, item, <<>>)

\* as LookBack_next, with the failing element stored and pos advanced as on success
LookBack_next_StoresFailed(self, item) ==
    LET N == Len(self.value_store)
    IN IF N = 0 THEN Ret(self, item, <<>>)
       ELSE IF IsOk(item)
       THEN LET val == item[1].val
            IN IF self.pos >= N
               THEN LET cycle_index == self.pos % N
                        former == self.value_store[cycle_index + 1]
                        stored == [self EXCEPT
                                     !.value_store[cycle_index + 1] =
                                         Extractor(self.extractor, val),
                                     !.pos = @ + 1]
                    IN IF LookBackTest(self.validation, former, val)
                       THEN Ret(stored, item,
                                <<Call("validation", <<former, val>>),
                                  Call("extractor", <<val>>)>>)
                       ELSE Ret(stored,
                                Some(Err(LookBackFailed(val,
                                    Msg(self.msg_writer, <<val, former>>)))),
                                <<Call("validation", <<former, val>>),
                                  Call("msg_writer", <<val, former>>)>>)
               ELSE Ret([self EXCEPT
                           !.value_store[self.pos + 1] = Extractor(self.extractor, val),
                           !.pos = @ + 1],
                        item, <<Call("extractor", <<val>>)>>)
       ELSE Ret(self, item, <<>>)

\* as LookBack_next, with pos advanced when the test fails
LookBack_next_AdvancesOnFail(self, item) ==
    LET N == Len(self.value_store)
    IN IF N = 0 THEN Ret(self, item, <<>>)
       ELSE IF IsOk(item)
       THEN LET val == item[1].val
            IN IF self.pos >= N
               THEN LET cycle_index == self.pos % N
                        former == self.value_store[cycle_index + 1]
                    IN IF LookBackTest(self.validation, former, val)
                       THEN Ret([self EXCEPT
                                   !.value_store[cycle_index + 1] =
                                       Extractor(self.extractor, val),
                                   !.pos = @ + 1],
                                item,
                                <<Call("validation", <<former, val>>),
                                  Call("extractor", <<val>>)>>)
                       ELSE Ret([self EXCEPT !.pos = @ + 1],
                                Some(Err(LookBackFailed(val,
                                    Msg(self.msg_writer, <<val, former>>)))),
                                <<Call("validation", <<former, val>>),
                                  Call("msg_writer", <<val, former>>)>>)
               ELSE Ret([self EXCEPT
                           !.value_store[self.pos + 1] = Extractor(self.extractor, val),
                           !.pos = @ + 1],
                        item, <<Call("extractor", <<val>>)>>)
       ELSE Ret(self, item, <<>>)

\* as LookBack_next, with the first N elements tested as well, against the
\* default values the buffer is constructed with
LookBack_next_TestsWarmUp(self, item) ==
    LET N == Len(self.value_store)
    IN IF N = 0 THEN Ret(self, item, <<>>)
       ELSE IF IsOk(item)
       THEN LET val == item[1].val
                cycle_index == self.pos % N
                former == self.value_store[cycle_index + 1]
            IN IF LookBackTest(self.validation, former, val)
               THEN Ret([self EXCEPT
                           !.value_store[cycle_index + 1] =
                               Extractor(self.extractor, val),
                           !.pos = @ + 1],
                        item,
                        <<Call("validation", <<former, val>>),
                          Call("extractor", <<val>>)>>)
               ELSE Ret(self,
                        Some(Err(LookBackFailed(val,
                            Msg(self.msg_writer, <<val, former>>)))),
                        <<Call("validation", <<former, val>>),
                          Call("msg_writer", <<val, former>>)>>)
       ELSE Ret(self, item, <<>>)

\* value_store is indexed from 0 in the source and from 1 here
LookBack_next(self, item) ==
    LET N == Len(self.value_store)
    IN IF N = 0 THEN Ret(self, item, <<>>)
       ELSE IF IsOk(item)
       THEN LET val == item[1].val
            IN IF self.pos >= N
               THEN LET cycle_index == self.pos % N
                        former == self.value_store[cycle_index + 1]
                    IN IF LookBackTest(self.validation, former, val)
                       THEN Ret([self EXCEPT
                                   !.value_store[cycle_index + 1] =
                                       Extractor(self.extractor, val),
                                   !.pos = @ + 1],
                                item,
                                <<Call("validation", <<former, val>>),
                                  Call("extractor", <<val>>)>>)
                       ELSE Ret(self,
                                Some(Err(LookBackFailed(val,
                                    Msg(self.msg_writer, <<val, former>>)))),
                                <<Call("validation", <<former, val>>),
                                  Call("msg_writer", <<val, former>>)>>)
               ELSE Ret([self EXCEPT
                           !.value_store[self.pos + 1] = Extractor(self.extractor, val),
                           !.pos = @ + 1],
                        item, <<Call("extractor", <<val>>)>>)
       ELSE Ret(self, item, <<>>)

\* the default form, a window of 1
look_back(extractor, validation, err_msg) ==
    LookBack_new(1, extractor, validation, err_msg)

LookBackIter_new(steps, extractor, validation, factory) ==
    [kind |-> "LookBackIter", count |-> 0, steps |-> steps, pos |-> 0,
     value_store |-> <<>>, extractor |-> extractor, validation |-> validation,
     factory |-> factory]

\* a pull that panics: the remainder by zero, an index past the buffer
Panic == Some([tag |-> "Panic"])

\* as LookBackIter_next, with the check of steps = 0 removed
LookBackIter_next_NoZeroGuard(self, item) ==
    LET e == Enumerate_next(self.count, item)
        s == [self EXCEPT !.count = e.count]
    IN IF IsOk(item)
       THEN LET val == item[1].val
            IN IF s.pos >= s.steps
               THEN IF s.steps = 0 THEN Ret(s, Panic, <<>>)
                    ELSE
                    LET cycle_index == s.pos % s.steps
                        former == s.value_store[cycle_index + 1]
                    IN IF LookBackTest(s.validation, val, former)
                       THEN Ret([s EXCEPT
                                   !.value_store[cycle_index + 1] =
                                       Extractor(s.extractor, val),
                                   !.pos = @ + 1],
                                item,
                                <<Call("validation", <<val, former>>),
                                  Call("extractor", <<val>>)>>)
                       ELSE Ret(s,
                                Some(Err(FactoryErr(s.factory, Some(val),
                                                    <<e.i, val, former>>))),
                                <<Call("validation", <<val, former>>),
                                  Call("factory", <<e.i, val, former>>)>>)
               ELSE Ret([s EXCEPT
                           !.value_store = Append(@, Extractor(s.extractor, val)),
                           !.pos = @ + 1],
                        item, <<Call("extractor", <<val>>)>>)
       ELSE Ret(s, item, <<>>)

\* as LookBackIter_next, with the value of an element that passes its test
\* pushed to the buffer
LookBackIter_next_PushesAlways(self, item) ==
    LET e == Enumerate_next(self.count, item)
        s == [self EXCEPT !.count = e.count]
    IN IF s.steps = 0 THEN Ret(s, item, <<>>)
       ELSE IF IsOk(item)
       THEN LET val == item[1].val
            IN IF s.pos >= s.steps
               THEN LET cycle_index == s.pos % s.steps
                        former == s.value_store[cycle_index + 1]
                    IN IF LookBackTest(s.validation, val, former)
                       THEN Ret([s EXCEPT
                                   !.value_store = Append(@, Extractor(s.extractor, val)),
                                   !.pos = @ + 1],
                                item,
                                <<Call("validation", <<val, former>>),
                                  Call("extractor", <<val>>)>>)
                       ELSE Ret(s,
                                Some(Err(FactoryErr(s.factory, Some(val),
                                                    <<e.i, val, former>>))),
                                <<Call("validation", <<val, former>>),
                                  Call("factory", <<e.i, val, former>>)>>)
               ELSE Ret([s EXCEPT
                           !.value_store = Append(@, Extractor(s.extractor, val)),
                           !.pos = @ + 1],
                        item, <<Call("extractor", <<val>>)>>)
       ELSE Ret(s, item, <<>>)

LookBackIter_next(self, item) ==
    LET e == Enumerate_next(self.count, item)
        s == [self EXCEPT !.count = e.count]
    IN IF s.steps = 0 THEN Ret(s, item, <<>>)
       ELSE IF IsOk(item)
       THEN LET val == item[1].val
            IN IF s.pos >= s.steps
               THEN LET cycle_index == s.pos % s.steps
                        former == s.value_store[cycle_index + 1]
                    IN IF LookBackTest(s.validation, val, former)
                       THEN Ret([s EXCEPT
                                   !.value_store[cycle_index + 1] =
                                       Extractor(s.extractor, val),
                                   !.pos = @ + 1],
                                item,
                                <<Call("validation", <<val, former>>),
                                  Call("extractor", <<val>>)>>)
                       ELSE Ret(s,
                                Some(Err(FactoryErr(s.factory, Some(val),
                                                    <<e.i, val, former>>))),
                                <<Call("validation", <<val, former>>),
                                  Call("factory", <<e.i, val, former>>)>>)
               ELSE Ret([s EXCEPT
                           !.value_store = Append(@, Extractor(s.extractor, val)),
                           !.pos = @ + 1],
                        item, <<Call("extractor", <<val>>)>>)
       ELSE Ret(s, item, <<>>)

(***************************************************************************)
(* The error bridges: lift_errs, err_lift and cast_errs take an iterator   *)
(* of results whose errors are of another element type.                    *)
(***************************************************************************)
LiftErrs_new == [kind |-> "LiftErrs"]

\* as LiftErrs_next, with the description of the inner error kept
LiftErrs_next_KeepsDesc(self, item) ==
    IF IsErr(item)
    THEN LET desc == item[1].err.msg[1].desc
         IN Ret(self, Some(Err(Description(desc))), <<>>)
    ELSE Ret(self, item, <<>>)

LiftErrs_next(self, item) ==
    IF IsErr(item) THEN Ret(self, Some(Err(Lifted)), <<>>)
    ELSE Ret(self, item, <<>>)

ErrLift_new == [kind |-> "ErrLift"]

ErrLift_next(self, item) ==
    IF IsErr(item) THEN Ret(self, Some(Err(Lifted)), <<>>)
    ELSE Ret(self, item, <<>>)

CastErrs_new == [kind |-> "CastErrs"]

\* the ValidErr of cast_errs.rs has the variants Description and WithElement
CastErrs_next(self, item) ==
    IF IsErr(item)
    THEN LET desc == item[1].err.msg[1].desc
         IN Ret(self, Some(Err(Description(desc))), <<>>)
    ELSE Ret(self, item, <<>>)

(***************************************************************************)
(* msg.rs: the wrapper that msg() and auto_msg() of between and const_over *)
(* build around the adapter.  The pusher of between writes the message      *)
(* into an OutOfBounds without one, the pusher of const_over into a        *)
(* BrokenConstant without one.                                             *)
(***************************************************************************)
MsgPusher_new(variant, msg) == [kind |-> "MsgPusher", variant |-> variant, msg |-> msg]

\* Between::msg_push and the closure of ConstOver::msg
Pusher(self, verr) ==
    IF verr.kind = self.variant /\ verr.msg = None
    THEN [verr EXCEPT !.msg = Some(Msg(self.msg, <<>>))]
    ELSE verr

\* as MsgPusher_next, with every rejection turned into the variant of the wrapper
MsgPusher_next_Relabels(self, item) ==
    IF IsErr(item)
    THEN Ret(self, Some(Err(Pusher(self, [item[1].err EXCEPT !.kind = self.variant]))),
             <<Call("pusher", <<>>)>>)
    ELSE Ret(self, item, <<>>)

MsgPusher_next(self, item) ==
    IF IsErr(item)
    THEN Ret(self, Some(Err(Pusher(self, item[1].err))), <<Call("pusher", <<>>)>>)
    ELSE Ret(self, item, <<>>)

(***************************************************************************)
(* Dispatch of next() on the kind of the stage, and one pull of a chain.   *)
(***************************************************************************)
(***************************************************************************)
(* simple_validations: Between over a plain iterator.                      *)
(***************************************************************************)
SimpleBetween_new(lower_bound, upper_bound) ==
    [kind |-> "SimpleBetween", lower_bound |-> lower_bound, upper_bound |-> upper_bound]

SimpleBetween_next(self, item) ==
    IF IsSome(item)
    THEN LET val == item[1].val
         IN IF PartialLe(self.lower_bound, val) /\ PartialLt(val, self.upper_bound)
            THEN Ret(self, Some(Ok(val)), <<>>)
            ELSE Ret(self, Some(Err(OutOfBounds(val))), <<>>)
    ELSE Ret(self, None, <<>>)

(***************************************************************************)
(* complex_validations: AtMost over ValidResult, whose Err carries an      *)
(* element.                                                                *)
(***************************************************************************)
ComplexAtMost_new(max_count) ==
    [kind |-> "ComplexAtMost", max_count |-> max_count, counter |-> 0]

ComplexAtMost_next(self, item) ==
    IF IsOk(item) THEN Ret(self, Some(Ok(item[1].val)), <<>>)
    ELSE Ret(self, item, <<>>)

(***************************************************************************)
(* Nested pipelines: map(|line| ... .collect::<Result<Vec<_>, _>>()), the  *)
(* closure building a new inner pipeline for every line.                   *)
(***************************************************************************)
RECURSIVE Chain_next(_, _, _)

\* collect over the pipeline c with the items of row left in its source and
\* acc collected: the first Err is returned and nothing is pulled after it
RECURSIVE Collect(_, _, _)
Collect(c, row, acc) ==
    LET n == Len(c)
        item == IF row = <<>> THEN None ELSE Head(row)
        r == Chain_next(c, n, item)
        out == r[n].ret
    IN IF IsErr(out) THEN Err(out[1].err)
       ELSE IF out = None THEN Ok(acc)
       ELSE Collect([j \in 1 .. n |-> r[j].self], Tail(row), Append(acc, out[1].val))

\* the same with filter(|r| r.is_ok()) before the collection
RECURSIVE FilterCollect(_, _, _)
FilterCollect(c, row, acc) ==
    LET n == Len(c)
        item == IF row = <<>> THEN None ELSE Head(row)
        r == Chain_next(c, n, item)
        out == r[n].ret
        rest == [j \in 1 .. n |-> r[j].self]
    IN IF IsErr(out) THEN FilterCollect(rest, IF row = <<>> THEN row ELSE Tail(row), acc)
       ELSE IF out = None THEN Ok(acc)
       ELSE FilterCollect(rest, Tail(row), Append(acc, out[1].val))

MapCollect_new(inner) == [kind |-> "MapCollect", inner |-> inner]

\* as MapCollect_next, with the rejections of the inner pipeline filtered
\* out before the collection
MapCollect_next_Filters(self, item) ==
    IF IsSome(item)
    THEN Ret(self, Some(FilterCollect(self.inner, item[1].val, <<>>)), <<>>)
    ELSE Ret(self, None, <<>>)

MapCollect_next(self, item) ==
    IF IsSome(item)
    THEN Ret(self, Some(Collect(self.inner, item[1].val, <<>>)), <<>>)
    ELSE Ret(self, None, <<>>)

Stage_next(self, item) ==
    CASE self.kind = "AtMost" -> AtMost_next(self, item)
      [] self.kind = "AtMostIter" -> AtMostIter_next(self, item)
      [] self.kind = "AtLeast" -> AtLeast_next(self, item)
      [] self.kind = "AtLeastIter" -> AtLeastIter_next(self, item)
      [] self.kind = "Between" -> Between_next(self, item)
      [] self.kind = "BetweenDesc" -> BetweenDesc_next(self, item)
      [] self.kind = "Ensure" -> Ensure_next(self, item)
      [] self.kind = "EnsureIter" -> EnsureIter_next(self, item)
      [] self.kind = "Validate" -> Validate_next(self, item)
      [] self.kind = "ConstOver" -> ConstOver_next(self, item)
      [] self.kind = "ConstOverIter" -> ConstOverIter_next(self, item)
      [] self.kind = "LookBack" -> LookBack_next(self, item)
      [] self.kind = "LookBackIter" -> LookBackIter_next(self, item)
      [] self.kind = "LiftErrs" -> LiftErrs_next(self, item)
      [] self.kind = "ErrLift" -> ErrLift_next(self, item)
      [] self.kind = "CastErrs" -> CastErrs_next(self, item)
      [] self.kind = "MsgPusher" -> MsgPusher_next(self, item)
      [] self.kind = "Validatable" -> Validatable_next(self, item)
      [] self.kind = "MapCollect" -> MapCollect_next(self, item)
      [] self.kind = "SimpleBetween" -> SimpleBetween_next(self, item)
      [] self.kind = "ComplexAtMost" -> ComplexAtMost_next(self, item)

\* the results of the stages 1..n of chain c when the source returns item:
\* element j is what stage j returned to stage j + 1
Chain_next(c, n, item) ==
    IF n = 0 THEN <<>>
    ELSE LET inner == Chain_next(c, n - 1, item)
             up == IF n = 1 THEN item ELSE inner[n - 1].ret
         IN Append(inner, Stage_next(c[n], up))

(***************************************************************************)
(* The pipelines that are built: every adapter alone over the source, in   *)
(* both variants, and two chained ensure adapters.                         *)
(***************************************************************************)
AtMostChains ==
    {<<AtMost_new(k, "too_many")>> : k \in 0 .. MaxCount}
    \cup {<<AtMostIter_new(k, "too_many")>> : k \in 0 .. MaxCount}

AtLeastChains ==
    {<<AtLeast_new(k, "too_few")>> : k \in 0 .. MaxCount}
    \cup {<<AtLeastIter_new(k, "too_few")>> : k \in 0 .. MaxCount}

BetweenChains ==
    {<<Between_new(lo, hi)>> : lo \in Elems, hi \in Elems}
    \cup {<<BetweenDesc_new(lo, hi, "oob")>> : lo \in Elems, hi \in Elems}

EnsureChains ==
    {<<Ensure_new(p, "invalid")>> : p \in Validations}
    \cup {<<EnsureIter_new(p, "invalid")>> : p \in Validations}

ValidateChains == {<<Validate_new(p)>> : p \in Validations}

EnsureEnsureChains ==
    {<<Ensure_new(p1, "first"), Ensure_new(p2, "second")>> :
        p1 \in Validations, p2 \in Validations}
    \cup {<<EnsureIter_new(p1, "first"), EnsureIter_new(p2, "second")>> :
        p1 \in Validations, p2 \in Validations}

ConstOverChains ==
    {<<ConstOver_new(m)>> : m \in Extractors}
    \cup {<<ConstOverIter_new(m, "broken")>> : m \in Extractors}

LookBackChains ==
    {<<LookBack_new(n, m, f, "look_back")>> :
        n \in 0 .. MaxWindow, m \in Extractors, f \in LookBackTests}
    \cup {<<LookBackIter_new(n, m, f, "look_back")>> :
        n \in 0 .. MaxWindow, m \in Extractors, f \in LookBackTests}

\* chains of several adapters, in the order of the crate's examples
MixedChains ==
    {<<AtMost_new(k, "too_many"), Between_new(1, 2), Ensure_new("even", "invalid"),
       AtLeast_new(2, "too_few")>> : k \in 1 .. 2}
    \cup {<<Between_new(0, 1), AtMost_new(2, "too_many")>>,
          <<ConstOver_new("parity"), LookBack_new(1, "id", "lt", "look_back"),
            AtMost_new(2, "too_many")>>,
          <<AtLeast_new(2, "too_few"), AtMost_new(1, "too_many")>>,
          <<AtLeast_new(1, "first"), AtLeast_new(2, "second")>>,
          <<AtMostIter_new(1, "too_many"), EnsureIter_new("is_zero", "invalid"),
            AtLeastIter_new(2, "too_few")>>,
          <<ConstOverIter_new("id", "broken"),
            LookBackIter_new(2, "id", "eq", "look_back")>>,
          <<BetweenDesc_new(0, 1, "oob"), AtMostIter_new(2, "too_many")>>}

\* the bridges, each alone over an iterator of results
BridgeChains == {<<LiftErrs_new>>, <<ErrLift_new>>, <<CastErrs_new>>}

\* adapters with a message: between and const_over under their wrapper,
\* alone and after a between without a message, and at_most with either of
\* two message writers
MsgChains ==
    {<<Between_new(lo, lo + 1), MsgPusher_new("OutOfBounds", m)>> :
        lo \in 0 .. (MaxElem - 1), m \in {"first", "second"}}
    \cup {<<ConstOver_new(e), MsgPusher_new("BrokenConstant", "broken")>> : e \in Extractors}
    \cup {<<Between_new(1, 2), Between_new(0, 1), MsgPusher_new("OutOfBounds", "second")>>,
          <<Between_new(0, 1), ConstOver_new("parity"),
            MsgPusher_new("BrokenConstant", "broken")>>}
    \cup {<<AtMost_new(k, w)>> : k \in 0 .. 1, w \in {"too_many", "other"}}

Chains ==
    AtMostChains \cup AtLeastChains \cup BetweenChains \cup EnsureChains
    \cup ValidateChains \cup MixedChains
    \cup EnsureEnsureChains \cup ConstOverChains \cup LookBackChains

(***************************************************************************)
(* The source: an iterator of results that is fused, so that once it has   *)
(* returned None it returns None again.                                    *)
(***************************************************************************)
UpstreamErrs == {Mapped("upstream")}
Items == {Some(Ok(v)) : v \in Elems} \cup {Some(Err(e)) : e \in UpstreamErrs}
RawItems == {Some(Raw(v)) : v \in Elems}

\* the errors of an inner pipeline, as a bridge receives them
InnerErrs == {Description("inner"), WithElement(0, "inner"), WithElement(1, "other")}
BridgeItems == {Some(Ok(v)) : v \in Elems} \cup {Some(Err(e)) : e \in InnerErrs}

\* the adapters that are built over a plain iterator
RawKinds == {"Validate", "Validatable", "SimpleBetween"}
BridgeKinds == {"LiftErrs", "ErrLift", "CastErrs"}
\* the items the source of a pipeline starting with an adapter of kind k has
SourceItemsOf(k) ==
    IF k \in RawKinds THEN RawItems
    ELSE IF k \in BridgeKinds THEN {Some(Ok(v)) : v \in Elems} \cup {Some(Err(e)) : e \in UpstreamErrs}
    ELSE Items

\* the lines of a nested input, each the source of an inner pipeline
RECURSIVE RowsOf(_, _)
RowsOf(items, n) ==
    IF n = 0 THEN {<<>>}
    ELSE LET shorter == RowsOf(items, n - 1)
         IN shorter \cup {Append(r, x) : r \in {q \in shorter : Len(q) = n - 1}, x \in items}
RowItems(c) ==
    {Some(Raw(r)) : r \in RowsOf(SourceItemsOf(c[1].inner[1].kind), MaxRow)}

\* the results of complex_validations
ComplexItems == {Some(Ok(v)) : v \in Elems} \cup {Some(Err(v)) : v \in Elems}

SourceItems(c) ==
    IF c[1].kind = "MapCollect" THEN RowItems(c)
    ELSE IF c[1].kind = "ComplexAtMost" THEN ComplexItems
    ELSE IF c[1].kind \in RawKinds THEN RawItems
    ELSE IF c[1].kind \in BridgeKinds THEN BridgeItems
    ELSE Items

SourceDone == \E i \in 1 .. Len(flow) : flow[i][1] = None

Init ==
    /\ chain \in Chains
    /\ flow = <<>>
    /\ calls = <<>>

\* as Pull, with the states of the stages kept as they were when the last
\* stage returns a rejection
Pull_RollsBack ==
    /\ Len(flow) < MaxPulls
    /\ \E item \in SourceItems(chain) \cup {None} :
          /\ SourceDone => item = None
          /\ LET n == Len(chain)
                 r == Chain_next(chain, n, item)
             IN /\ chain' = IF IsErr(r[n].ret) THEN chain
                            ELSE [j \in 1 .. n |-> r[j].self]
                /\ flow' = Append(flow, <<item>> \o [j \in 1 .. n |-> r[j].ret])
                /\ calls' = Append(calls, [j \in 1 .. n |-> r[j].calls])

\* the consumer calls next() on the outermost adapter
Pull ==
    /\ Len(flow) < MaxPulls
    /\ \E item \in SourceItems(chain) \cup {None} :
          /\ SourceDone => item = None
          /\ LET n == Len(chain)
                 r == Chain_next(chain, n, item)
             IN /\ chain' = [j \in 1 .. n |-> r[j].self]
                /\ flow' = Append(flow, <<item>> \o [j \in 1 .. n |-> r[j].ret])
                /\ calls' = Append(calls, [j \in 1 .. n |-> r[j].calls])

Next == Pull

Spec == Init /\ [][Next]_vars

InitMixed == Init /\ chain \in MixedChains
SpecMixed == InitMixed /\ [][Next]_vars

\* every adapter, alone or in a chain, with the counting adapters at every count
PipelineChains == MixedChains \cup AtMostChains \cup AtLeastChains \cup ValidateChains
InitPipelines == Init /\ chain \in PipelineChains
SpecPipelines == InitPipelines /\ [][Next]_vars

\* validate() alone and under the first adapter of a pipeline
ValidatableChains ==
    {<<Validatable_new>>, <<Validatable_new, AtMost_new(1, "too_many")>>,
     <<Validatable_new, Between_new(0, 1)>>}
InitValidatable ==
    /\ chain \in ValidatableChains
    /\ flow = <<>>
    /\ calls = <<>>
SpecValidatable == InitValidatable /\ [][Next]_vars

(***************************************************************************)
(* The counters are usize.  An increment past the largest usize panics in  *)
(* a build with overflow checks and wraps to 0 in a build without them;    *)
(* the adapters of this family carry the build they were compiled in.      *)
(***************************************************************************)
CounterFields == {"counter", "enumeration_counter", "pos", "count"}

Overflows(st) == \E f \in (DOMAIN st) \cap CounterFields : st[f] > UsizeMax

Wrapping(st) ==
    [f \in DOMAIN st |-> IF f \in CounterFields THEN st[f] % (UsizeMax + 1) ELSE st[f]]

\* next() of a stage with counters of UsizeBits bits: every counter is
\* incremented once at most in a call and is not read after its increment
Usize_next(self, item) ==
    LET r == Stage_next(self, item)
    IN IF Overflows(r.self)
       THEN IF self.overflow_checks THEN Ret(self, Panic, r.calls)
            ELSE Ret(Wrapping(r.self), r.ret, r.calls)
       ELSE r

CompiledWith(st, checks) ==
    [f \in (DOMAIN st) \cup {"overflow_checks"} |->
        IF f = "overflow_checks" THEN checks ELSE st[f]]

UsizeChains ==
    {<<CompiledWith(st, b)>> :
        st \in {AtLeast_new(k, "too_few") : k \in {0, MaxCount}}
                \cup {AtLeastIter_new(k, "too_few") : k \in {0, MaxCount}}
                \cup {LookBack_new(n, "id", "lt", "look_back") : n \in 1 .. MaxWindow}
                \cup {LookBackIter_new(n, "id", "lt", "look_back") : n \in 1 .. MaxWindow}
                \cup {AtMostIter_new(MaxCount, "too_many")},
        b \in BOOLEAN}

\* a panic ends the program
Aborted == \E i \in 1 .. Len(flow) : flow[i][2] = Panic

PullUsize ==
    /\ Len(flow) < MaxPulls
    /\ ~Aborted
    /\ \E item \in Items \cup {None} :
          /\ SourceDone => item = None
          /\ LET r == Usize_next(chain[1], item)
             IN /\ chain' = <<r.self>>
                /\ flow' = Append(flow, <<item, r.ret>>)
                /\ calls' = Append(calls, <<r.calls>>)

InitUsize ==
    /\ chain \in UsizeChains
    /\ flow = <<>>
    /\ calls = <<>>
SpecUsize == InitUsize /\ [][PullUsize]_vars

\* look_back in its default form and with windows of 1, MaxWindow and a
\* window no stream fills
WarmUpChains ==
    {<<look_back(m, f, "look_back")>> : m \in Extractors, f \in LookBackTests}
    \cup {<<LookBack_new(n, "id", f, "look_back")>> :
            n \in {MaxWindow, MaxPulls}, f \in LookBackTests}
    \cup {<<LookBackIter_new(n, "id", f, "look_back")>> :
            n \in {1, MaxWindow, MaxPulls}, f \in LookBackTests}
InitWarmUp ==
    /\ chain \in WarmUpChains
    /\ flow = <<>>
    /\ calls = <<>>
SpecWarmUp == InitWarmUp /\ [][Next]_vars

\* the validation_adapters variants, alone and in chains where a stage
\* receives the rejections of the stages above it
FactoryChains ==
    {<<AtMostIter_new(k, "too_many")>> : k \in 0 .. 1}
    \cup {<<AtLeastIter_new(k, "too_few")>> : k \in 1 .. MaxCount}
    \cup {<<EnsureIter_new(p, "invalid")>> : p \in Validations}
    \cup {<<ConstOverIter_new("parity", "broken")>>}
    \cup {<<LookBackIter_new(n, "id", "lt", "look_back")>> : n \in 1 .. MaxWindow}
    \cup {<<AtMostIter_new(1, "too_many"), EnsureIter_new("is_zero", "invalid"),
            AtLeastIter_new(2, "too_few")>>,
          <<AtLeastIter_new(1, "first"), AtLeastIter_new(MaxCount, "second")>>,
          <<ConstOverIter_new("id", "broken"), LookBackIter_new(1, "id", "lt", "look_back")>>}
InitFactory ==
    /\ chain \in FactoryChains
    /\ flow = <<>>
    /\ calls = <<>>
SpecFactory == InitFactory /\ [][Next]_vars

\* at_most followed by between or ensure, with and without a final
\* at_least, and the between(..).at_least(..) of the documentation
OrderChains ==
    {<<AtMost_new(k, "too_many"), Between_new(1, 2)>> : k \in 1 .. 2}
    \cup {<<AtMost_new(k, "too_many"), Ensure_new("even", "invalid")>> : k \in 1 .. 2}
    \cup {<<AtMost_new(k, "too_many"), Between_new(1, 2), AtLeast_new(2, "too_few")>> :
            k \in 1 .. 2}
    \cup {<<AtMost_new(k, "too_many"), Ensure_new("even", "invalid"),
            AtLeast_new(2, "too_few")>> : k \in 1 .. 2}
    \cup {<<Between_new(1, 2), AtLeast_new(2, "too_few")>>}
InitOrder ==
    /\ chain \in OrderChains
    /\ flow = <<>>
    /\ calls = <<>>
SpecOrder == InitOrder /\ [][Next]_vars

\* the AtMost of complex_validations at every cap, over results and over
\* validate()
ComplexChains ==
    {<<ComplexAtMost_new(k)>> : k \in 0 .. MaxCount}
    \cup {<<Validatable_new, ComplexAtMost_new(k)>> : k \in 0 .. 1}
InitComplex ==
    /\ chain \in ComplexChains
    /\ flow = <<>>
    /\ calls = <<>>
SpecComplex == InitComplex /\ [][Next]_vars

\* the Between of simple_validations with every pair of bounds
SimpleChains == {<<SimpleBetween_new(lo, hi)>> : lo \in Elems, hi \in Elems}
InitSimple ==
    /\ chain \in SimpleChains
    /\ flow = <<>>
    /\ calls = <<>>
SpecSimple == InitSimple /\ [][Next]_vars

\* every adapter alone over a source of Ok items with rejections among them
AloneChains ==
    {<<AtMost_new(1, "too_many")>>, <<AtMostIter_new(1, "too_many")>>,
     <<AtLeast_new(2, "too_few")>>, <<AtLeastIter_new(2, "too_few")>>,
     <<Between_new(0, 1)>>,
     <<Ensure_new("even", "invalid")>>, <<EnsureIter_new("even", "invalid")>>,
     <<ConstOver_new("parity")>>, <<ConstOverIter_new("parity", "broken")>>}
    \cup {<<LookBack_new(n, "id", "lt", "look_back")>> : n \in 1 .. MaxWindow}
    \cup {<<LookBackIter_new(n, "id", "lt", "look_back")>> : n \in 1 .. MaxWindow}
InitAlone ==
    /\ chain \in AloneChains
    /\ flow = <<>>
    /\ calls = <<>>
SpecAlone == InitAlone /\ [][Next]_vars

\* an adapter followed by a second instance of itself
Twice(a) == <<a, a>>
TwiceChains ==
    {Twice(AtMost_new(k, "too_many")) : k \in 0 .. MaxCount}
    \cup {Twice(Between_new(lo, lo + 1)) : lo \in 0 .. (MaxElem - 1)}
    \cup {Twice(Ensure_new(p, "invalid")) : p \in Validations}
    \cup {Twice(ConstOver_new(e)) : e \in Extractors}
    \cup {Twice(LookBack_new(1, e, f, "look_back")) : e \in Extractors, f \in LookBackTests}
    \cup {Twice(LookBack_new(MaxWindow, "id", f, "look_back")) : f \in LookBackTests}
InitTwice ==
    /\ chain \in TwiceChains
    /\ flow = <<>>
    /\ calls = <<>>
SpecTwice == InitTwice /\ [][Next]_vars

\* look_back alone with every window from 0, array-backed and Vec-backed
BufferChains ==
    {<<LookBack_new(n, "id", f, "look_back")>> : n \in 0 .. MaxWindow, f \in LookBackTests}
    \cup {<<LookBackIter_new(n, "id", f, "look_back")>> :
            n \in 0 .. MaxWindow, f \in LookBackTests}
InitBuffer ==
    /\ chain \in BufferChains
    /\ flow = <<>>
    /\ calls = <<>>
SpecBuffer == InitBuffer /\ [][Next]_vars

InitMsg ==
    /\ chain \in MsgChains
    /\ flow = <<>>
    /\ calls = <<>>
SpecMsg == InitMsg /\ [][Next]_vars

InitBridge ==
    /\ chain \in BridgeChains
    /\ flow = <<>>
    /\ calls = <<>>
SpecBridge == InitBridge /\ [][Next]_vars

\* the same program, started with one family of pipelines
InitAtMost == Init /\ chain \in AtMostChains
SpecAtMost == InitAtMost /\ [][Next]_vars

InitAtLeast == Init /\ chain \in AtLeastChains
SpecAtLeast == InitAtLeast /\ [][Next]_vars

InitBetween == Init /\ chain \in BetweenChains
SpecBetween == InitBetween /\ [][Next]_vars

InitEnsure == Init /\ chain \in EnsureChains \cup ValidateChains
SpecEnsure == InitEnsure /\ [][Next]_vars

InitConstOver == Init /\ chain \in ConstOverChains
SpecConstOver == InitConstOver /\ [][Next]_vars

InitLookBack == Init /\ chain \in LookBackChains
SpecLookBack == InitLookBack /\ [][Next]_vars

InitEnsureEnsure == Init /\ chain \in EnsureEnsureChains
SpecEnsureEnsure == InitEnsureEnsure /\ [][Next]_vars

(***************************************************************************)
(* Reading the history of a run.                                           *)
(***************************************************************************)
Pulls == 1 .. Len(flow)
Stages == 1 .. Len(chain)
\* what the source returned at pull i, and what the outermost adapter returned
In(i) == flow[i][1]
Out(i) == flow[i][Len(chain) + 1]

\* C1: an adapter that receives Err(e) from its upstream returns the same
\* Err(e) at that pull, and calls none of its closures for it.
C1_PassThrough ==
    \A i \in Pulls : \A j \in Stages :
        IsErr(flow[i][j]) => flow[i][j + 1] = flow[i][j] /\ calls[i][j] = <<>>

C1_Witness ==
    /\ Len(chain) = 1
    /\ \E i \in Pulls : i > 1 /\ IsOk(In(i - 1)) /\ IsErr(In(i)) /\ Out(i) = In(i)

(***************************************************************************)
(* The rejection an adapter makes of element v: the variant of ValidErr    *)
(* of the top-level adapters, the product of the stage's own factory for   *)
(* the validation_adapters.                                                *)
(***************************************************************************)
RejectsAs(o, kind, v) ==
    /\ IsErr(o)
    /\ o[1].err.kind = kind
    /\ o[1].err.element = Some(v)

FactoryRejects(o, factory, v) ==
    /\ IsErr(o)
    /\ o[1].err.kind = "Factory"
    /\ o[1].err.element = Some(v)
    /\ o[1].err.msg[1].desc = factory

\* the number of Ok items the source returned before pull i
OkBefore(i) == Cardinality({h \in 1 .. i - 1 : IsOk(In(h))})

IsTooMany(o, v) ==
    IF chain[1].kind = "AtMost" THEN RejectsAs(o, "TooMany", v)
    ELSE FactoryRejects(o, chain[1].factory, v)

\* C2: at_most(k) forwards the first k Ok items of its upstream and returns
\* every later Ok item as the TooMany rejection of that element; after its
\* first rejection it never returns an Ok item again.
C2_AtMostCap ==
    /\ \A i \in Pulls :
          IsOk(In(i)) =>
             IF OkBefore(i) < chain[1].max_count
             THEN Out(i) = In(i)
             ELSE IsTooMany(Out(i), In(i)[1].val)
    /\ \A i \in Pulls : \A h \in Pulls :
          (i < h /\ IsOk(In(i)) /\ IsErr(Out(i))) => ~IsOk(Out(h))

C2_Witness ==
    /\ chain[1].max_count = 2
    /\ Len(flow) = 5
    /\ IsOk(Out(1)) /\ IsErr(In(2)) /\ IsOk(Out(3))
    /\ IsOk(In(4)) /\ IsTooMany(Out(4), In(4)[1].val)
    /\ IsOk(In(5)) /\ IsTooMany(Out(5), In(5)[1].val)

IsTooFew(o) ==
    /\ IsErr(o)
    /\ o[1].err.element = None
    /\ IF chain[1].kind = "AtLeast" THEN o[1].err.kind = "TooFew"
       ELSE o[1].err.kind = "Factory" /\ o[1].err.msg[1].desc = chain[1].factory

\* pull i is the one at which the source reports exhaustion
FirstNone(i) == In(i) = None /\ \A h \in 1 .. i - 1 : In(h) # None

SomeIn == {i \in Pulls : In(i) # None}
SomeOut == {i \in Pulls : Out(i) # None}
OkIn == {i \in Pulls : IsOk(In(i))}

\* C3: when the source reports exhaustion at_least(k) returns TooFew if and
\* only if it has forwarded fewer than k Ok items, and None otherwise; the
\* run then has one outcome more than the source if fewer than k of the
\* source's items were Ok, and as many as the source otherwise.
C3_AtLeastAtExhaustion ==
    /\ \A i \in Pulls :
          FirstNone(i) =>
             IF OkBefore(i) < chain[1].min_count
             THEN IsTooFew(Out(i))
             ELSE Out(i) = None
    /\ SourceDone =>
          Cardinality(SomeOut) =
             Cardinality(SomeIn)
                + (IF Cardinality(OkIn) < chain[1].min_count THEN 1 ELSE 0)

\* a source of m = k - 1 Ok items: one TooFew; the boundary next to k = m
C3_Witness ==
    /\ chain[1].min_count = 3
    /\ Len(flow) = 3
    /\ IsOk(Out(1)) /\ IsOk(Out(2)) /\ In(3) = None /\ IsTooFew(Out(3))

\* C4: at_least returns every item of the source as it is and returns its
\* TooFew only at a pull at which the source returned None, so that it is
\* the outcome after the last outcome of the source.
C4_TooFewOnlyAtEnd ==
    \A i \in Pulls :
       /\ In(i) # None => Out(i) = In(i)
       /\ IsTooFew(Out(i)) =>
             /\ In(i) = None
             /\ \A h \in 1 .. i - 1 : In(h) # None
             /\ i = Cardinality(SomeIn) + 1

\* short of the minimum and not yet exhausted: no rejection so far
C4_Witness ==
    /\ Len(flow) = 2
    /\ chain[1].min_count = 3
    /\ IsOk(In(1)) /\ IsOk(In(2))
    /\ \A i \in Pulls : IsOk(Out(i))

\* C5: at_least returns TooFew at most once, and every pull after it
\* returns None while the source returns None.
C5_TooFewOnce ==
    /\ Cardinality({i \in Pulls : IsTooFew(Out(i))}) <= 1
    /\ \A i \in Pulls : \A h \in Pulls :
          (i < h /\ IsTooFew(Out(i)) /\ In(h) = None) => Out(h) = None

C5_Witness ==
    /\ Len(flow) = 5
    /\ IsOk(Out(1)) /\ IsTooFew(Out(2))
    /\ Out(3) = None /\ Out(4) = None /\ Out(5) = None

IsOutOfBounds(o, v) ==
    IF chain[1].kind = "Between" THEN RejectsAs(o, "OutOfBounds", v)
    ELSE RejectsAs(o, "WithElement", v) /\ o[1].err.msg[1].desc = chain[1].desc

\* lo <= v <= hi, which no NaN satisfies
InRange(v, lo, hi) ==
    /\ v \in 0 .. MaxElem /\ lo \in 0 .. MaxElem /\ hi \in 0 .. MaxElem
    /\ lo <= v /\ v <= hi

\* C6: between(lo, hi) forwards an Ok item v if and only if lo <= v <= hi,
\* both bounds included, and returns the OutOfBounds rejection of v
\* otherwise; a NaN is rejected, and with lo = hi only that value passes.
C6_BetweenInclusive ==
    LET lo == chain[1].lower_bound
        hi == chain[1].upper_bound
    IN \A i \in Pulls :
          IsOk(In(i)) =>
             LET v == In(i)[1].val
             IN /\ IF InRange(v, lo, hi) THEN Out(i) = In(i)
                   ELSE IsOutOfBounds(Out(i), v)
                /\ v = NaN => IsErr(Out(i))
                /\ (lo = hi /\ lo # NaN) => (IsOk(Out(i)) <=> v = lo)

C6_Witness ==
    /\ chain[1].lower_bound = 1 /\ chain[1].upper_bound = 2
    /\ Len(flow) = 4
    /\ In(1) = Some(Ok(1)) /\ Out(1) = Some(Ok(1))
    /\ In(2) = Some(Ok(2)) /\ Out(2) = Some(Ok(2))
    /\ In(3) = Some(Ok(0)) /\ IsOutOfBounds(Out(3), 0)
    /\ In(4) = Some(Ok(NaN)) /\ IsOutOfBounds(Out(4), NaN)

\* how many times stage j called the closure fn during pull i
NumCalls(i, j, fn) ==
    Cardinality({n \in 1 .. Len(calls[i][j]) : calls[i][j][n].fn = fn})

\* the rejection that the predicate adapter at stage j makes of element v
IsInvalid(o, j, v) ==
    CASE chain[j].kind = "Ensure" ->
            RejectsAs(o, "Invalid", v) /\ o[1].err.msg[1].desc = chain[j].msg_writer
      [] chain[j].kind = "EnsureIter" -> FactoryRejects(o, chain[j].factory, v)
      [] chain[j].kind = "Validate" -> RejectsAs(o, "InvalidItem", v)

\* the item is an accepted input of the predicate adapter: an Ok item, or
\* an element of the plain iterator under Validate
Accepted(o) == IsOk(o) \/ IsRaw(o)

\* C7: ensure(p) forwards an accepted v if and only if p(v), and returns
\* the Invalid rejection of v otherwise; it calls p once, on v, for each
\* accepted input and not at all for any other item.
C7_EnsureIffPredicate ==
    \A i \in Pulls :
       IF Accepted(In(i))
       THEN LET v == In(i)[1].val
            IN /\ IF Validation(chain[1].validation, v)
                  THEN Out(i) = Some(Ok(v))
                  ELSE IsInvalid(Out(i), 1, v)
               /\ NumCalls(i, 1, "validation") = 1
               /\ \E n \in 1 .. Len(calls[i][1]) :
                     calls[i][1][n] = Call("validation", <<v>>)
       ELSE NumCalls(i, 1, "validation") = 0 /\ Out(i) = In(i)

C7_Witness ==
    /\ chain[1].kind \in {"Ensure", "EnsureIter"}
    /\ chain[1].validation = "even"
    /\ Len(flow) = 3
    /\ In(1) = Some(Ok(2)) /\ Out(1) = Some(Ok(2))
    /\ In(2) = Some(Ok(1)) /\ IsInvalid(Out(2), 1, 1)
    /\ IsErr(In(3)) /\ Out(3) = In(3)

\* C8: in ensure(p1).ensure(p2) an element that fails p1 comes out as the
\* rejection made by the first adapter, and the second adapter does not
\* call p2 for it.
C8_SecondEnsureSkipsRejected ==
    \A i \in Pulls :
       (IsOk(In(i)) /\ ~Validation(chain[1].validation, In(i)[1].val)) =>
          /\ NumCalls(i, 2, "validation") = 0
          /\ IsInvalid(Out(i), 1, In(i)[1].val)
          /\ Out(i) = flow[i][2]

\* the element 1 fails both is_zero and even
C8_Witness ==
    /\ Len(chain) = 2
    /\ chain[1].validation = "is_zero" /\ chain[2].validation = "even"
    /\ \E i \in Pulls : In(i) = Some(Ok(1)) /\ IsInvalid(Out(i), 1, 1)
    /\ \E i \in Pulls : In(i) = Some(Ok(0)) /\ Out(i) = In(i)

IsBrokenConstant(o, v) ==
    IF chain[1].kind = "ConstOver" THEN RejectsAs(o, "BrokenConstant", v)
    ELSE FactoryRejects(o, chain[1].factory, v)

\* the first pull at which the source returned an Ok item
FirstOk == CHOOSE i \in OkIn : \A h \in OkIn : i <= h

\* C9: const_over(f) forwards the first Ok item and takes r = f of it as
\* the reference; a later Ok item v is forwarded if and only if f(v) == r
\* and is the BrokenConstant rejection of v otherwise.  r stays the stored
\* value whatever is rejected afterwards.
C9_ConstOverReference ==
    OkIn # {} =>
       LET r == Extractor(chain[1].extractor, In(FirstOk)[1].val)
       IN /\ Out(FirstOk) = In(FirstOk)
          /\ chain[1].stored_value = Some(r)
          /\ \A i \in OkIn :
                i > FirstOk =>
                   LET v == In(i)[1].val
                   IN IF PartialEq(Extractor(chain[1].extractor, v), r)
                      THEN Out(i) = In(i)
                      ELSE IsBrokenConstant(Out(i), v)

\* an element equal to the reference is accepted after a rejection
C9_Witness ==
    /\ chain[1].extractor = "id"
    /\ Len(flow) = 3
    /\ In(1) = Some(Ok(0)) /\ Out(1) = In(1)
    /\ In(2) = Some(Ok(1)) /\ IsBrokenConstant(Out(2), 1)
    /\ In(3) = Some(Ok(0)) /\ Out(3) = In(3)

\* the elements the outermost adapter returned as Ok in the pulls 1..n
RECURSIVE AcceptedUpTo(_)
AcceptedUpTo(n) ==
    IF n = 0 THEN <<>>
    ELSE IF IsOk(Out(n)) THEN Append(AcceptedUpTo(n - 1), Out(n)[1].val)
    ELSE AcceptedUpTo(n - 1)

\* the window of the look_back adapter at stage 1
Window == IF chain[1].kind = "LookBack" THEN Len(chain[1].value_store) ELSE chain[1].steps

\* test applied to the element v and the historical value, each variant
\* with the order of parameters of its closure
TestHolds(v, former) ==
    IF chain[1].kind = "LookBack" THEN LookBackTest(chain[1].validation, former, v)
    ELSE LookBackTest(chain[1].validation, v, former)

IsLookBackFailed(o, v) ==
    IF chain[1].kind = "LookBack" THEN RejectsAs(o, "LookBackFailed", v)
    ELSE FactoryRejects(o, chain[1].factory, v)

\* C10: with a window N >= 1 and a_1, a_2, ... the elements the adapter has
\* returned as Ok, an Ok item v that arrives when j >= N elements have been
\* accepted is forwarded if and only if test holds of v and the extractor
\* value of the element accepted N steps earlier, and is the
\* LookBackFailed rejection of v otherwise; while pos >= N the slot
\* pos % N holds the extractor value of that element.
C10_LookBackWindow ==
    Window >= 1 =>
       /\ \A i \in Pulls :
             LET a == AcceptedUpTo(i - 1)
                 j == Len(a)
             IN (IsOk(In(i)) /\ j >= Window) =>
                   LET v == In(i)[1].val
                       former == Extractor(chain[1].extractor, a[j - Window + 1])
                   IN IF TestHolds(v, former) THEN Out(i) = In(i)
                      ELSE IsLookBackFailed(Out(i), v)
       /\ LET a == AcceptedUpTo(Len(flow))
              pos == chain[1].pos
          IN pos >= Window =>
                chain[1].value_store[(pos % Window) + 1] =
                   Extractor(chain[1].extractor, a[pos - Window + 1])

\* window 2: the fifth accepted element is tested against the third, whose
\* value overwrote the slot of the first
C10_Witness ==
    /\ Window = 2
    /\ chain[1].extractor = "id" /\ chain[1].validation = "lt"
    /\ Len(flow) = 5
    /\ \A i \in 1 .. 4 : IsOk(Out(i))
    /\ In(1) # In(3)
    /\ IsOk(In(5)) /\ IsLookBackFailed(Out(5), In(5)[1].val)
    /\ TestHolds(In(5)[1].val, In(1)[1].val)

\* the historical value handed to test at pull i, each variant with the order
\* of parameters of its closure
TestedAt(i) == NumCalls(i, 1, "validation") = 1
FormerAt(i) ==
    LET c == calls[i][1][1]
    IN IF chain[1].kind = "LookBack" THEN c.args[1] ELSE c.args[2]

\* pull i is an Ok input the look_back adapter rejected
FailedAt(i) == IsOk(In(i)) /\ IsErr(Out(i))

\* C11: a pull whose test fails changes neither pos nor any slot of the
\* buffer; every Ok input that follows a failed test with no accepted
\* element in between is tested against the same historical value; and the
\* historical value of a test is never taken from an element that failed.
C11_FailedTestKeepsHistory ==
    /\ [][\A i \in 1 .. Len(flow') :
             (i > Len(flow) /\ IsOk(flow'[i][1]) /\ IsErr(flow'[i][2])) =>
                 /\ chain'[1].pos = chain[1].pos
                 /\ chain'[1].value_store = chain[1].value_store]_vars
    /\ [](\A i \in Pulls : \A k \in Pulls :
             (i < k /\ FailedAt(i) /\ IsOk(In(k)) /\ Window >= 1
                /\ \A m \in (i + 1) .. (k - 1) : ~IsOk(Out(m))) =>
                 TestedAt(i) /\ TestedAt(k) /\ FormerAt(k) = FormerAt(i))
    /\ [](\A k \in Pulls : (Window >= 1 /\ TestedAt(k)) =>
             \E i \in 1 .. (k - 1) :
                 IsOk(Out(i)) /\ FormerAt(k) = Extractor(chain[1].extractor, Out(i)[1].val))

\* window 2 over 0, 0, 1, 2, 0 with equality: 1 and 2 fail against the first
\* 0, and the last 0 passes against that same 0
C11_Witness ==
    /\ Window = 2
    /\ chain[1].extractor = "id" /\ chain[1].validation = "eq"
    /\ Len(flow) = 5
    /\ \A i \in 1 .. 5 : IsOk(In(i))
    /\ IsOk(Out(1)) /\ IsOk(Out(2)) /\ FailedAt(3) /\ FailedAt(4) /\ IsOk(Out(5))
    /\ In(3) # In(4)
    /\ FormerAt(3) = 0 /\ FormerAt(4) = 0 /\ FormerAt(5) = 0

\* C12: with a window of 0 the look_back adapter returns at every pull what
\* its upstream returned, end of stream included, calls neither the
\* extractor nor the test nor the error writer, no pull panics, and the
\* buffer stays empty with pos at 0.
C12_ZeroWindowNoOp ==
    Window = 0 =>
       /\ \A i \in Pulls :
             Out(i) = In(i) /\ Out(i) # Panic /\ calls[i][1] = <<>>
       /\ chain[1].pos = 0 /\ chain[1].value_store = <<>>

\* window 0 with the test "lt": a descending pair, a rejection from upstream
\* and the end of the stream all come out as they went in
C12_Witness ==
    /\ Window = 0 /\ chain[1].validation = "lt" /\ chain[1].extractor = "id"
    /\ Len(flow) = 4
    /\ In(1) = Some(Ok(2)) /\ In(2) = Some(Ok(0)) /\ IsErr(In(3)) /\ In(4) = None
    /\ \A i \in 1 .. 4 : Out(i) = In(i)

\* the number of outcomes that have come out of position j of the flow:
\* position 1 is the source, position j + 1 the return of stage j
NumSome(j) == Cardinality({i \in Pulls : IsSome(flow[i][j])})
IsAtLeast(j) == chain[j].kind \in {"AtLeast", "AtLeastIter"}

\* C13: every stage other than at_least returns an outcome at a pull exactly
\* when its upstream does, and None exactly when its upstream does; at_least
\* returns an outcome whenever its upstream does and at most one more,
\* which comes once the upstream has returned None; so the number of
\* outcomes a stage has returned is at most one more than the number its
\* upstream has, and more only for at_least after exhaustion.
C13_LengthPreserved ==
    \A j \in Stages :
       /\ \A i \in Pulls : IsSome(flow[i][j]) => IsSome(flow[i][j + 1])
       /\ ~IsAtLeast(j) => \A i \in Pulls : flow[i][j] = None => flow[i][j + 1] = None
       /\ Cardinality({i \in Pulls : flow[i][j] = None /\ IsSome(flow[i][j + 1])}) <= 1
       /\ NumSome(j) <= NumSome(j + 1) /\ NumSome(j + 1) <= NumSome(j) + 1
       /\ NumSome(j + 1) > NumSome(j) =>
             IsAtLeast(j) /\ \E i \in Pulls : flow[i][j] = None

\* at_least(2) under at_most(1): one element, then the end of the source;
\* at_least adds TooFew, at_most forwards it, and both then return None
C13_Witness ==
    /\ Len(chain) = 2 /\ chain[1].kind = "AtLeast" /\ chain[2].kind = "AtMost"
    /\ Len(flow) = 3
    /\ IsOk(In(1)) /\ In(2) = None /\ In(3) = None
    /\ IsOk(Out(1)) /\ IsTooFew(Out(2)) /\ Out(3) = None
    /\ NumSome(1) = 1 /\ NumSome(2) = 2 /\ NumSome(3) = 2

\* the element an outcome carries, inside Ok or inside a rejection
CarriedBy(o) ==
    IF o = None THEN <<>>
    ELSE IF IsErr(o) THEN o[1].err.element
    ELSE <<o[1].val>>

\* the elements carried at position j of the flow in the pulls 1..n, in order
RECURSIVE CarriedUpTo(_, _)
CarriedUpTo(j, n) ==
    IF n = 0 THEN <<>> ELSE CarriedUpTo(j, n - 1) \o CarriedBy(flow[n][j])

\* C14: the elements carried by the outcomes a stage returns are, in order,
\* the elements carried by the outcomes it received, for every stage and so
\* for the chain; an outcome without an element that a stage did not
\* receive as it is is the TooFew of at_least, returned at the end of its
\* upstream, after every outcome that carries an element.
C14_OrderPreserved ==
    /\ \A j \in Stages : CarriedUpTo(j + 1, Len(flow)) = CarriedUpTo(j, Len(flow))
    /\ CarriedUpTo(Len(chain) + 1, Len(flow)) = CarriedUpTo(1, Len(flow))
    /\ \A j \in Stages : \A i \in Pulls :
          (IsSome(flow[i][j + 1]) /\ CarriedBy(flow[i][j + 1]) = <<>>
             /\ flow[i][j + 1] # flow[i][j]) =>
              /\ IsAtLeast(j) /\ flow[i][j] = None
              /\ flow[i][j + 1][1].err.kind \in {"TooFew", "Factory"}
              /\ \A k \in Pulls : CarriedBy(flow[k][j + 1]) # <<>> => k < i

\* at_most(2), between(1, 2), ensure(even), at_least(2) over 0, 1, 2: the
\* three rejections carry 0, 1, 2 in that order and TooFew follows them
C14_Witness ==
    /\ Len(chain) = 4 /\ Len(flow) = 4
    /\ In(1) = Some(Ok(0)) /\ In(2) = Some(Ok(1)) /\ In(3) = Some(Ok(2)) /\ In(4) = None
    /\ RejectsAs(Out(1), "OutOfBounds", 0)
    /\ RejectsAs(Out(2), "Invalid", 1)
    /\ RejectsAs(Out(3), "TooMany", 2)
    /\ IsErr(Out(4)) /\ Out(4)[1].err.kind = "TooFew"
    /\ CarriedUpTo(5, 4) = <<0, 1, 2>>

\* the stages that turn the element of pull i, received as Ok, into a rejection
Rejecters(i) == {j \in Stages : IsOk(flow[i][j]) /\ IsErr(flow[i][j + 1])}

\* the chain at_most(k), between(lo, hi), ensure(p), at_least(m) of the example
IsExampleChain ==
    /\ Len(chain) = 4
    /\ chain[1].kind = "AtMost" /\ chain[2].kind = "Between"
    /\ chain[3].kind = "Ensure" /\ chain[4].kind = "AtLeast"

\* C15: in a chain an element the source returned as Ok is rejected by at
\* most one stage; its final outcome is that stage's rejection, unchanged
\* by every later stage, which calls no closure for it; it is accepted if
\* and only if no stage rejects it.  In the chain of the example the
\* rejection is the one of the first adapter, in chain order, whose own
\* condition fails for the element.
C15_FirstRejectionWins ==
    /\ \A i \in Pulls : IsOk(In(i)) =>
          /\ Cardinality(Rejecters(i)) <= 1
          /\ Rejecters(i) = {} <=> Out(i) = In(i)
          /\ \A j \in Rejecters(i) :
                /\ \A n \in 1 .. (j - 1) : flow[i][n + 1] = In(i)
                /\ \A n \in (j + 1) .. Len(chain) :
                      flow[i][n + 1] = flow[i][j + 1] /\ calls[i][n] = <<>>
                /\ Out(i) = flow[i][j + 1]
    /\ IsExampleChain =>
          \A i \in Pulls : IsOk(In(i)) =>
             LET v == In(i)[1].val
             IN IF OkBefore(i) >= chain[1].max_count
                   THEN RejectsAs(Out(i), "TooMany", v)
                ELSE IF ~InRange(v, chain[2].lower_bound, chain[2].upper_bound)
                   THEN RejectsAs(Out(i), "OutOfBounds", v)
                ELSE IF ~Validation(chain[3].validation, v)
                   THEN RejectsAs(Out(i), "Invalid", v)
                ELSE Out(i) = In(i)

\* the example chain with cap 2 over NaN, 2, 1: NaN fails the range and the
\* predicate and is OutOfBounds; 2 is accepted; 1 is past the cap, fails
\* the predicate, and is TooMany
C15_Witness ==
    /\ IsExampleChain /\ chain[1].max_count = 2
    /\ Len(flow) = 3
    /\ In(1) = Some(Ok(NaN)) /\ In(2) = Some(Ok(2)) /\ In(3) = Some(Ok(1))
    /\ ~Validation(chain[3].validation, NaN) /\ ~Validation(chain[3].validation, 1)
    /\ RejectsAs(Out(1), "OutOfBounds", NaN)
    /\ Out(2) = Some(Ok(2))
    /\ RejectsAs(Out(3), "TooMany", 1)

\* the fields that number the items pulled: the count of Enumerate and the
\* enumeration_counter of AtLeastIter
PositionFields == {"count", "enumeration_counter"}

\* the state of a stage without the fields that number the items pulled
ValidationState(st) == [f \in (DOMAIN st) \ PositionFields |-> st[f]]

\* stage j receives a rejection in the pull this step adds
PullsErr(j) == IsErr(flow'[Len(flow')][j])

\* C16 as stated: a stage that pulls a rejected input keeps every field of
\* its state, the count of Enumerate and enumeration_counter included.
C16_AllStateUnchanged ==
    [][\A j \in Stages : PullsErr(j) => chain'[j] = chain[j]]_vars

\* C16: a stage that pulls a rejected input keeps the counters of at_most
\* and at_least, the reference of const_over and pos and the buffer of
\* look_back; the count of Enumerate and the enumeration_counter of
\* AtLeastIter, in the variants that hold them, advance by one.
C16_ValidationStateUnchanged ==
    [][\A j \in Stages : PullsErr(j) =>
          /\ ValidationState(chain'[j]) = ValidationState(chain[j])
          /\ \A f \in (DOMAIN chain[j]) \cap PositionFields :
                chain'[j][f] = chain[j][f] + 1]_vars

\* AtMostIter with cap 1 under EnsureIter and AtLeastIter, over Ok, Err, Ok:
\* the rejection leaves the counters at 1 and moves the index and
\* enumeration_counter, so the factory is handed index 2 for the third item
C16_Witness ==
    /\ Len(chain) = 3 /\ chain[1].kind = "AtMostIter" /\ chain[1].max_count = 1
    /\ chain[3].kind = "AtLeastIter"
    /\ Len(flow) = 3
    /\ IsOk(In(1)) /\ IsErr(In(2)) /\ IsOk(In(3))
    /\ Out(1) = In(1) /\ Out(2) = In(2)
    /\ chain[1].counter = 1 /\ chain[1].count = 3
    /\ chain[3].counter = 1 /\ chain[3].enumeration_counter = 3
    /\ calls[3][1] = <<Call("factory", <<2, In(3)[1].val>>)>>

IsAtMost(j) == chain[j].kind \in {"AtMost", "AtMostIter"}

\* the pulls at which stage j received an Ok item, a rejection, and returned Ok
OkInto(j) == {i \in Pulls : IsOk(flow[i][j])}
ErrInto(j) == {i \in Pulls : IsErr(flow[i][j])}
OkOutOf(j) == {i \in Pulls : IsOk(flow[i][j + 1])}

\* the count at_most keeps against its cap
Forwarded(j) == IF chain[j].kind = "AtMost" THEN chain[j].position ELSE chain[j].counter

Min(a, b) == IF a <= b THEN a ELSE b

\* C17: for an at_most stage with cap k, alone or after other adapters, the
\* count kept against the cap and the number of items forwarded both equal
\* min(k, number of Ok items received), whatever number of rejections was
\* received before or between them; an Ok item is forwarded if and only if
\* fewer than k Ok items came before it; and with at most k Ok items
\* received every output equals its input.
C17_RejectedNotCounted ==
    \A j \in Stages : IsAtMost(j) =>
       LET k == chain[j].max_count
       IN /\ Forwarded(j) = Min(k, Cardinality(OkInto(j)))
          /\ Cardinality(OkOutOf(j)) = Min(k, Cardinality(OkInto(j)))
          /\ \A i \in OkInto(j) :
                flow[i][j + 1] = flow[i][j]
                   <=> Cardinality({h \in OkInto(j) : h < i}) < k
          /\ Cardinality(OkInto(j)) <= k =>
                \A i \in Pulls : flow[i][j + 1] = flow[i][j]

\* between(0, 1) under at_most(2) over 2, 0, 1: the rejection of 2 is the
\* first of three outcomes, and 0 and 1 are both within the cap of 2
C17_Witness ==
    /\ Len(chain) = 2 /\ chain[1].kind = "Between" /\ chain[2].kind = "AtMost"
    /\ chain[2].max_count = 2 /\ chain[2].position = 2
    /\ Len(flow) = 3
    /\ In(1) = Some(Ok(2)) /\ In(2) = Some(Ok(0)) /\ In(3) = Some(Ok(1))
    /\ RejectsAs(Out(1), "OutOfBounds", 2)
    /\ Out(2) = In(2) /\ Out(3) = In(3)
    /\ ErrInto(2) = {1} /\ OkInto(2) = {2, 3}

\* the pulls at which stage j, its upstream exhausted, returned an outcome
AddedBy(j) == {i \in Pulls : flow[i][j] = None /\ IsSome(flow[i][j + 1])}

\* C18: for an at_least stage with minimum k, alone or after other adapters,
\* a rejection received is returned as it is and leaves counter alone:
\* until the end of its upstream counter is the number of Ok items
\* received; at the first None of its upstream the stage returns a
\* rejection if and only if fewer than k Ok items were received, whatever
\* number of rejections came with them, and the top-level variant reports
\* that number of Ok items to its message writer.
C18_AtLeastCountsAccepted ==
    \A j \in Stages : IsAtLeast(j) =>
       LET k == chain[j].min_count
           n == Cardinality(OkInto(j))
       IN /\ \A i \in ErrInto(j) : flow[i][j + 1] = flow[i][j]
          /\ chain[j].counter = IF AddedBy(j) = {} THEN n ELSE k
          /\ \A i \in Pulls :
                (flow[i][j] = None /\ \A h \in 1 .. (i - 1) : flow[h][j] # None) =>
                    /\ i \in AddedBy(j) <=> n < k
                    /\ i \notin AddedBy(j) => flow[i][j + 1] = None
                    /\ (i \in AddedBy(j) /\ chain[j].kind = "AtLeast") =>
                          calls[i][j] = <<Call("msg_writer", <<n, k>>)>>

\* at_least(1) over one rejection: the rejection, then TooFew, then None
C18_Witness ==
    /\ Len(chain) = 1 /\ IsAtLeast(1) /\ chain[1].min_count = 1
    /\ Len(flow) = 3
    /\ IsErr(In(1)) /\ In(2) = None /\ In(3) = None
    /\ Out(1) = In(1) /\ IsTooFew(Out(2)) /\ Out(3) = None
    /\ NumSome(1) >= chain[1].min_count /\ OkInto(1) = {}

IsLift == chain[1].kind \in {"LiftErrs", "ErrLift"}

\* C19: lift_errs and err_lift return Ok(t) as received, Err(Lifted) for
\* every Err(e), and None for None, one output per input in the order of
\* the inputs; the output for an inner error is the output for every other
\* inner error, so streams that differ in their inner errors alone give
\* equal outputs.
C19_LiftErrs ==
    IsLift =>
       \A i \in Pulls :
          /\ IsOk(In(i)) => Out(i) = In(i)
          /\ IsErr(In(i)) =>
                /\ Out(i) = Some(Err(Lifted))
                /\ \A e \in InnerErrs : Stage_next(chain[1], Some(Err(e))).ret = Out(i)
          /\ In(i) = None <=> Out(i) = None
          /\ calls[i][1] = <<>>

\* three inner errors of different content around one Ok item all come out
\* as Lifted
C19_Witness ==
    /\ IsLift /\ Len(flow) = 4
    /\ In(1) = Some(Err(Description("inner")))
    /\ In(2) = Some(Ok(1))
    /\ In(3) = Some(Err(WithElement(0, "inner")))
    /\ In(4) = Some(Err(WithElement(1, "other")))
    /\ Out(1) = Some(Err(Lifted)) /\ Out(2) = In(2)
    /\ Out(3) = Out(1) /\ Out(4) = Out(1)

\* C20: cast_errs returns at every pull what lift_errs returns for the same
\* input up to the name of the marker: a rejection exactly where the input
\* is a rejection, and every rejection it returns carries neither an
\* element nor a description.
C20_CastSameAsLift ==
    chain[1].kind = "CastErrs" =>
       \A i \in Pulls :
          /\ IsErr(Out(i)) <=> IsErr(LiftErrs_next(LiftErrs_new, In(i)).ret)
          /\ IsOk(Out(i)) => Out(i) = LiftErrs_next(LiftErrs_new, In(i)).ret
          /\ IsErr(Out(i)) => Out(i)[1].err.element = None /\ Out(i)[1].err.msg = None

(***************************************************************************)
(* collect::<Result<Vec<_>, _>>() of a pipeline: the collection pulls the   *)
(* outermost adapter until it returns None or a rejection, which it keeps  *)
(* as the result in place of the vector.                                   *)
(***************************************************************************)
\* as CollectDone, with the collection ended by None alone
CollectDone_OnlyAtEnd == \E i \in Pulls : Out(i) = None

\* the collection has returned
CollectDone == \E i \in Pulls : Out(i) = None \/ IsErr(Out(i))

\* one iteration of the loop of the collection
CollectPull == ~CollectDone /\ Pull

\* what the collection returns
CollectResult ==
    IF \E i \in Pulls : IsErr(Out(i))
    THEN Err((Out(CHOOSE i \in Pulls : IsErr(Out(i)) /\ \A h \in 1 .. (i - 1) : ~IsErr(Out(h))))[1].err)
    ELSE Ok(AcceptedUpTo(Len(flow)))

InitCollect == Init /\ chain \in PipelineChains
SpecCollect == InitCollect /\ [][CollectPull]_vars

\* stage j makes a rejection of its own at pull i
RejectsAt(i, j) == ~IsErr(flow[i][j]) /\ IsErr(flow[i][j + 1])

\* the outcome of pull i is rejected, by the source or by a stage
RejectedAt(i) == IsErr(In(i)) \/ \E j \in Stages : RejectsAt(i, j)

\* C21: a collection is not pulled past a rejection or the end; when it has
\* returned, it returns Ok of the elements of the source in order if nothing
\* was rejected, and otherwise the rejection of the first pull at which the
\* source or a stage rejects; when that rejection comes before the end of
\* the source no at_least stage has seen the end or returned TooFew.
C21_CollectAllOrNothing ==
    LET n == Len(flow)
    IN /\ \A i \in 1 .. (n - 1) : IsOk(Out(i))
       /\ CollectDone =>
             /\ CollectResult.tag = "Ok" <=> \A i \in Pulls : ~RejectedAt(i)
             /\ CollectResult.tag = "Ok" =>
                   /\ In(n) = None /\ Out(n) = None
                   /\ CollectResult.val = CarriedUpTo(1, n)
             /\ CollectResult.tag = "Err" =>
                   /\ CollectResult = Err(Out(n)[1].err)
                   /\ RejectedAt(n)
                   /\ \A i \in 1 .. (n - 1) : ~RejectedAt(i)
                   /\ IsSome(In(n)) =>
                         \A j \in Stages : IsAtLeast(j) =>
                            AddedBy(j) = {} /\ \A i \in Pulls : flow[i][j] # None

\* at_most(1) under ensure and at_least(2): the second element is past the
\* cap, the collection returns that rejection, and at_least, one element
\* short, is never asked again
C21_Witness ==
    /\ Len(chain) = 3 /\ chain[1].kind = "AtMostIter" /\ chain[3].kind = "AtLeastIter"
    /\ chain[3].min_count = 2 /\ chain[3].counter = 1
    /\ Len(flow) = 2 /\ CollectDone
    /\ IsOk(Out(1)) /\ IsOk(In(2)) /\ RejectsAt(2, 1)
    /\ CollectResult = Err(Out(2)[1].err)
    /\ AddedBy(3) = {}

(***************************************************************************)
(* A source all of whose outcomes are rejections.                          *)
(***************************************************************************)
RejectedItems == {Some(Err(e)) : e \in UpstreamErrs \cup {WithElement(0, "inner")}}

PullRejected ==
    /\ Len(flow) < MaxPulls
    /\ \E item \in RejectedItems \cup {None} :
          /\ SourceDone => item = None
          /\ LET n == Len(chain)
                 r == Chain_next(chain, n, item)
             IN /\ chain' = [j \in 1 .. n |-> r[j].self]
                /\ flow' = Append(flow, <<item>> \o [j \in 1 .. n |-> r[j].ret])
                /\ calls' = Append(calls, [j \in 1 .. n |-> r[j].calls])

InitAllRejected == Init /\ chain \in Chains \ ValidateChains
SpecAllRejected == InitAllRejected /\ [][PullRejected]_vars

\* C22 as stated: over a source of rejections every adapter, at_least with
\* a minimum above 0 included, returns at every pull what it received.
C22_AllRejectedIdentity ==
    \A j \in Stages : \A i \in Pulls : flow[i][j + 1] = flow[i][j]

\* C22: over a source of rejections every adapter returns each rejection
\* as received, in order, and calls no closure for it; every adapter but
\* at_least with a minimum above 0 returns None at the end, so its output
\* is its input; at_least with a minimum above 0 returns one TooFew at the
\* first None it receives and None afterwards.
C22_AllRejected ==
    \A j \in Stages :
       /\ \A i \in Pulls : IsErr(flow[i][j]) =>
             flow[i][j + 1] = flow[i][j] /\ calls[i][j] = <<>>
       /\ \A i \in Pulls : flow[i][j] = None =>
             IF IsAtLeast(j) /\ chain[j].min_count > 0
                /\ \A h \in 1 .. (i - 1) : flow[h][j] # None
             THEN /\ IsErr(flow[i][j + 1])
                  /\ flow[i][j + 1][1].err.element = None
                  /\ flow[i][j + 1][1].err.kind \in {"TooFew", "Factory"}
             ELSE flow[i][j + 1] = None

\* AtLeastIter with minimum 2 over two rejections: both come out, then the
\* rejection of the factory, then None
C22_Witness ==
    /\ Len(chain) = 1 /\ chain[1].kind = "AtLeastIter" /\ chain[1].min_count = 2
    /\ Len(flow) = 4
    /\ IsErr(In(1)) /\ IsErr(In(2)) /\ In(1) # In(2) /\ In(3) = None /\ In(4) = None
    /\ Out(1) = In(1) /\ Out(2) = In(2)
    /\ Out(3) = Some(Err(FactoryErr(chain[1].factory, None, <<2>>)))
    /\ Out(4) = None

(***************************************************************************)
(* The pipeline without its messages: the wrappers taken off and the       *)
(* message writers replaced by one that writes nothing, run from its       *)
(* construction over the items the source has returned.                    *)
(***************************************************************************)
IsAdapter(st) == st.kind # "MsgPusher"

Unmessaged(st) ==
    IF "msg_writer" \in DOMAIN st THEN [st EXCEPT !.msg_writer = "none"] ELSE st

\* the stage as constructed
Constructed(st) ==
    CASE st.kind = "AtMost" -> AtMost_new(st.max_count, st.msg_writer)
      [] st.kind = "Between" -> Between_new(st.lower_bound, st.upper_bound)
      [] st.kind = "ConstOver" -> ConstOver_new(st.extractor)
      [] st.kind = "MsgPusher" -> MsgPusher_new(st.variant, st.msg)
      [] st.kind = "AtMostIter" -> AtMostIter_new(st.max_count, st.factory)
      [] st.kind = "AtLeast" -> AtLeast_new(st.min_count, st.msg_writer)
      [] st.kind = "AtLeastIter" -> AtLeastIter_new(st.min_count, st.factory)
      [] st.kind = "Ensure" -> Ensure_new(st.validation, st.msg_writer)
      [] st.kind = "EnsureIter" -> EnsureIter_new(st.validation, st.factory)
      [] st.kind = "ConstOverIter" -> ConstOverIter_new(st.extractor, st.factory)
      [] st.kind = "LookBack" ->
             LookBack_new(Len(st.value_store), st.extractor, st.validation, st.msg_writer)
      [] st.kind = "LookBackIter" ->
             LookBackIter_new(st.steps, st.extractor, st.validation, st.factory)

Bare(c) ==
    LET a == SelectSeq(c, IsAdapter)
    IN [j \in 1 .. Len(a) |-> Unmessaged(a[j])]

\* chain c after the first n items of the source, and what it returned
RECURSIVE Replay(_, _)
Replay(c, n) ==
    IF n = 0 THEN [chain |-> c, outs |-> <<>>]
    ELSE LET p == Replay(c, n - 1)
             r == Chain_next(p.chain, Len(c), In(n))
         IN [chain |-> [j \in 1 .. Len(c) |-> r[j].self],
             outs |-> Append(p.outs, r[Len(c)].ret)]

StripMsg(o) == IF IsErr(o) THEN Some(Err([o[1].err EXCEPT !.msg = None])) ELSE o

\* C23: the pipeline with its messages and the pipeline without them return
\* at every pull outcomes that are equal but for the message of a
\* rejection: Ok, Err and None at the same pulls, the same variant, the
\* same element; and the states of the adapters are equal.
C23_MessageOnlyPayload ==
    LET b == Replay(Bare([j \in Stages |-> Constructed(chain[j])]), Len(flow))
    IN /\ \A i \in Pulls : StripMsg(Out(i)) = StripMsg(b.outs[i])
       /\ Bare(chain) = b.chain

\* between(0, 1) with a message over 0, 2: the rejection of 2 carries the
\* message, and is the OutOfBounds of 2 that between alone returns
C23_Witness ==
    /\ Len(chain) = 2 /\ chain[1].kind = "Between" /\ chain[1].lower_bound = 0
    /\ Len(flow) = 3
    /\ In(1) = Some(Ok(0)) /\ In(2) = Some(Ok(2)) /\ In(3) = None
    /\ Out(1) = In(1) /\ Out(3) = None
    /\ flow[2][2] = Some(Err(OutOfBounds(2)))
    /\ Out(2) = Some(Err([OutOfBounds(2) EXCEPT !.msg = Some(Msg(chain[2].msg, <<>>))]))

\* the stages that are the wrapper of the adapter before them
Pushers == {j \in Stages : chain[j].kind = "MsgPusher"}

\* C30: a rejection that the adapter under a wrapper received as a
\* rejection comes out of the wrapper as it went into the adapter, without
\* the message of the wrapper.
C30_PusherOwnRejectionsOnly ==
    \A j \in Pushers : \A i \in Pulls :
        IsErr(flow[i][j - 1]) => flow[i][j + 1] = flow[i][j - 1]

\* C24: validate() returns Ok(x) for every element x the wrapped iterator
\* returns, at the same pull and so in the same order, never a rejection,
\* and None when the wrapped iterator returns None; once the wrapped
\* iterator has returned None every later pull of validate() returns None.
C24_ValidateSource ==
    /\ [](\A i \in Pulls :
            /\ IsRaw(In(i)) => flow[i][2] = Some(Ok(In(i)[1].val))
            /\ In(i) = None <=> flow[i][2] = None
            /\ ~IsErr(flow[i][2])
            /\ calls[i][1] = <<>>)
    /\ [](\A i \in Pulls : \A h \in Pulls :
            (i < h /\ In(i) = None) => flow[h][2] = None)
    /\ [][(flow # <<>> /\ flow[Len(flow)][2] = None) =>
             flow'[Len(flow')][2] = None]_vars

\* 2, NaN, 0 come out as Ok(2), Ok(NaN), Ok(0), and the two pulls after
\* the end of the wrapped iterator return None
C24_Witness ==
    /\ chain = <<Validatable_new>> /\ Len(flow) = 5
    /\ In(1) = Some(Raw(2)) /\ In(2) = Some(Raw(NaN)) /\ In(3) = Some(Raw(0))
    /\ In(4) = None /\ In(5) = None
    /\ Out(1) = Some(Ok(2)) /\ Out(2) = Some(Ok(NaN)) /\ Out(3) = Some(Ok(0))
    /\ Out(4) = None /\ Out(5) = None

IsLookBack == chain[1].kind \in {"LookBack", "LookBackIter"}

\* C25: with counters of UsizeBits bits no pull panics; every counter holds
\* the number it counts, not that number modulo 2 ^ UsizeBits: counter of
\* at_least the Ok items received, enumeration_counter the calls made, the
\* index of Enumerate the items pulled, pos of look_back the elements
\* accepted; and look_back keeps testing every element past the first N
\* accepted against the one accepted N before it, held at pos % N.
C25_NoOverflow ==
    /\ \A i \in Pulls : Out(i) # Panic
    /\ (IsAtLeast(1) /\ AddedBy(1) = {}) => chain[1].counter = Cardinality(OkInto(1))
    /\ "enumeration_counter" \in DOMAIN chain[1] =>
          chain[1].enumeration_counter = Len(flow)
    /\ "count" \in DOMAIN chain[1] => chain[1].count = NumSome(1)
    /\ IsLookBack =>
          /\ chain[1].pos = Cardinality(OkOutOf(1))
          /\ C10_LookBackWindow

\* C26: the reference of const_over is unset exactly as long as no Ok item
\* has been received, whatever number of rejections has; a pull that
\* receives a rejection or None returns it and leaves the reference as it
\* was; the first Ok item is accepted and sets the reference to its
\* extractor value, also when rejections came before it.
C26_ReferenceFromFirstAccepted ==
    /\ [](chain[1].stored_value = None <=> OkIn = {})
    /\ [](OkIn # {} =>
            /\ Out(FirstOk) = In(FirstOk)
            /\ chain[1].stored_value =
                  Some(Extractor(chain[1].extractor, In(FirstOk)[1].val)))
    /\ [][LET n == Len(flow')
          IN ~IsOk(flow'[n][1]) =>
                /\ chain'[1].stored_value = chain[1].stored_value
                /\ flow'[n][2] = flow'[n][1]]_vars

\* a rejection, 1, a rejection, 1, 0 under the identity: the reference is
\* 1, both 1 are accepted and 0 is rejected
C26_Witness ==
    /\ chain[1].extractor = "id" /\ Len(flow) = 5
    /\ IsErr(In(1)) /\ In(2) = Some(Ok(1)) /\ IsErr(In(3))
    /\ In(4) = Some(Ok(1)) /\ In(5) = Some(Ok(0))
    /\ Out(1) = In(1) /\ Out(2) = In(2) /\ Out(3) = In(3) /\ Out(4) = In(4)
    /\ IsBrokenConstant(Out(5), 0)
    /\ chain[1].stored_value = Some(1)

\* the number of elements the adapter had returned as Ok before pull i
AcceptedBefore(i) == Cardinality({h \in 1 .. (i - 1) : IsOk(Out(h))})

\* C27: look_back with a window N >= 1 forwards an Ok item that arrives
\* when fewer than N elements have been accepted, without a call of the
\* test, and calls the test once for every Ok item that arrives later; a
\* stream with at most N Ok items has no rejection made by the adapter;
\* with N = 1 every test is against the extractor value of the element
\* the adapter accepted last.
C27_WarmUp ==
    /\ \A i \in OkIn :
          IF AcceptedBefore(i) < Window
          THEN Out(i) = In(i) /\ NumCalls(i, 1, "validation") = 0
          ELSE TestedAt(i)
    /\ Cardinality(OkIn) <= Window => \A i \in Pulls : Out(i) = In(i)
    /\ \A i \in Pulls : TestedAt(i) => Cardinality({h \in OkIn : h < i}) >= Window
    /\ Window = 1 =>
          \A i \in Pulls : TestedAt(i) =>
             LET a == AcceptedUpTo(i - 1)
             IN FormerAt(i) = Extractor(chain[1].extractor, a[Len(a)])

\* the default form over 0, 1, 0, 2 with "less than": 0 is accepted
\* untested, 1 passes against 0, 0 fails against 1, and 2 is tested
\* against 1, the last accepted, not against the rejected 0
C27_Witness ==
    /\ chain[1].kind = "LookBack" /\ Window = 1
    /\ chain[1].extractor = "id" /\ chain[1].validation = "lt"
    /\ Len(flow) = 4
    /\ In(1) = Some(Ok(0)) /\ In(2) = Some(Ok(1)) /\ In(3) = Some(Ok(0)) /\ In(4) = Some(Ok(2))
    /\ ~TestedAt(1) /\ Out(1) = In(1) /\ Out(2) = In(2)
    /\ FailedAt(3) /\ Out(4) = In(4)
    /\ FormerAt(2) = 0 /\ FormerAt(3) = 1 /\ FormerAt(4) = 1

\* the nested pipelines of the tests and of the example: the lines of the
\* input mapped to the collection of validate().ensure(..) or of
\* lift_errs().ensure(..), bridged by lift_errs and collected
NestedChains ==
    {<<MapCollect_new(<<Validatable_new, Ensure_new("is_zero", "invalid")>>), LiftErrs_new>>,
     <<MapCollect_new(<<LiftErrs_new, Ensure_new("is_zero", "invalid")>>), LiftErrs_new>>}
InitNested ==
    /\ chain \in NestedChains
    /\ flow = <<>>
    /\ calls = <<>>
SpecNested == InitNested /\ [][CollectPull]_vars

\* the inner pipeline over row has a rejection: an Err of its source, which
\* lift_errs turns into Lifted, or an element ensure rejects
RowRejected(row) ==
    \E k \in 1 .. Len(row) :
        IsErr(row[k]) \/ ~Validation(chain[1].inner[2].validation, row[k][1].val)
RowValues(row) == [k \in 1 .. Len(row) |-> row[k][1].val]

\* the lines pulled so far
Lines == {i \in Pulls : IsSome(In(i))}

\* C28: the outer stream has one outcome for every line pulled,
\* Err(Lifted) when the inner pipeline over the line has a rejection and Ok
\* of the elements of the line otherwise, and ends when the lines end; the
\* outer collection, once it has returned, returns Err(Lifted) when a line
\* pulled has a rejection and Ok of the rows otherwise.
C28_NestedAllOrNothing ==
    /\ \A i \in Pulls :
          /\ Len(flow[i]) = 3
          /\ IF i \in Lines
             THEN Out(i) = IF RowRejected(In(i)[1].val) THEN Some(Err(Lifted))
                           ELSE Some(Ok(RowValues(In(i)[1].val)))
             ELSE Out(i) = None
    /\ CollectDone =>
          CollectResult =
             IF \E i \in Lines : RowRejected(In(i)[1].val) THEN Err(Lifted)
             ELSE Ok([i \in 1 .. Cardinality(Lines) |-> RowValues(In(i)[1].val)])

\* two lines, the first of two valid elements and the second with an
\* invalid element in second place: the outer stream is Ok(row), Err(Lifted)
\* and the collection fails with Lifted
C28_Witness ==
    /\ Len(flow) = 2
    /\ chain[1].inner[1].kind = "LiftErrs"
    /\ In(1) = Some(Raw(<<Some(Ok(0)), Some(Ok(0))>>))
    /\ In(2) = Some(Raw(<<Some(Ok(0)), Some(Ok(1))>>))
    /\ Out(1) = Some(Ok(<<0, 0>>))
    /\ Out(2) = Some(Err(Lifted))
    /\ CollectDone /\ CollectResult = Err(Lifted)

\* the outcomes stage j had pulled from its upstream before pull i
PulledBefore(i, j) == Cardinality({h \in 1 .. (i - 1) : flow[h][j] # None})

\* the index the factory of the rejection was handed
IndexOf(o) == o[1].err.msg[1].args[1]

\* C29: when a validation_adapters stage makes a rejection, the index its
\* factory is handed is the number of outcomes, Ok and Err alike, the stage
\* had pulled before; at_most, ensure, const_over and look_back reject an Ok
\* item, so the index is the zero-based position of that item in the input
\* of the stage; at_least rejects at the end of its input, so the index is
\* the length of the input.
C29_FactoryIndex ==
    \A i \in Pulls : \A j \in Stages :
        RejectsAt(i, j) =>
            /\ IndexOf(flow[i][j + 1]) = PulledBefore(i, j)
            /\ IF chain[j].kind = "AtLeastIter"
               THEN /\ flow[i][j] = None
                    /\ PulledBefore(i, j) = Cardinality({h \in Pulls : flow[h][j] # None})
               ELSE IsOk(flow[i][j])

\* at_most(1).ensure(is_zero).at_least(2) over Err, Ok(0), Ok(0): at_most
\* rejects the third outcome with index 2 and at_least, that received one
\* Ok item among three, is handed 3 at the end
C29_Witness ==
    /\ Len(chain) = 3 /\ chain[1].kind = "AtMostIter"
    /\ Len(flow) = 4
    /\ IsErr(In(1)) /\ In(2) = Some(Ok(0)) /\ In(3) = Some(Ok(0)) /\ In(4) = None
    /\ RejectsAt(3, 1) /\ IndexOf(flow[3][2]) = 2
    /\ RejectsAt(4, 3) /\ IndexOf(flow[4][4]) = 3

\* the first pull at which stage j receives None
EndInto(j) == {i \in Pulls : flow[i][j] = None /\ \A h \in 1 .. (i - 1) : flow[h][j] # None}

\* C31: the first adapter of a chain has the state and returns the outcomes
\* it has alone over the same source, whatever adapters follow it and
\* whatever they reject; an at_most(k) in first place has counted
\* min(k, Ok items of the source) and returns TooMany for every Ok item
\* after the k-th, even for items a later adapter rejects; a final at_least
\* counts the Ok items it receives, those no adapter before it rejected,
\* and returns TooFew at the end exactly when they are fewer than its
\* minimum.
C31_UpstreamOnly ==
    LET n == Len(chain)
        alone == Replay(<<IF chain[1].kind = "AtMost" THEN Constructed(chain[1])
                          ELSE chain[1]>>, Len(flow))
    IN /\ alone.chain[1] = chain[1]
       /\ \A i \in Pulls : alone.outs[i] = flow[i][2]
       /\ chain[1].kind = "AtMost" =>
             /\ chain[1].position = Min(chain[1].max_count, Cardinality(OkIn))
             /\ \A i \in OkIn :
                   IF Cardinality({h \in OkIn : h < i}) >= chain[1].max_count
                   THEN RejectsAs(flow[i][2], "TooMany", In(i)[1].val)
                   ELSE flow[i][2] = In(i)
       /\ chain[n].kind = "AtLeast" =>
             /\ EndInto(n) = {} => chain[n].counter = Cardinality(OkInto(n))
             /\ \A i \in EndInto(n) :
                   IF Cardinality(OkInto(n)) < chain[n].min_count
                   THEN IsErr(Out(i)) /\ Out(i)[1].err.kind = "TooFew"
                   ELSE Out(i) = None

\* at_most(2).between(1, 2).at_least(2) over 0, 0, 1: between rejects both
\* elements at_most counted, the third is TooMany, nothing is accepted and
\* at_least, that received no Ok item, returns TooFew
C31_Witness ==
    /\ Len(chain) = 3 /\ chain[1].kind = "AtMost" /\ chain[1].max_count = 2
    /\ chain[2].kind = "Between"
    /\ Len(flow) = 4
    /\ In(1) = Some(Ok(0)) /\ In(2) = Some(Ok(0)) /\ In(3) = Some(Ok(1)) /\ In(4) = None
    /\ RejectsAs(Out(1), "OutOfBounds", 0) /\ RejectsAs(Out(2), "OutOfBounds", 0)
    /\ RejectsAs(Out(3), "TooMany", 1)
    /\ chain[1].position = 2 /\ OkOutOf(3) = {}
    /\ Out(4)[1].err.kind = "TooFew"

\* C32: the AtMost of complex_validations has counted min(max_count, Ok
\* items received); it forwards an Ok item received while counter is below
\* max_count and returns a rejection for an Ok item received once counter
\* has reached max_count.
C32_MaximumCount ==
    LET n == Len(chain)
    IN /\ chain[n].counter = Min(chain[n].max_count, Cardinality(OkInto(n)))
       /\ \A i \in OkInto(n) :
             IF Cardinality({h \in OkInto(n) : h < i}) < chain[n].max_count
             THEN Out(i) = flow[i][n]
             ELSE IsErr(Out(i))

\* what the Between of between.rs with the bounds of the simple one returns
\* for the element v
BetweenOn(v) ==
    Between_next(Between_new(chain[1].lower_bound, chain[1].upper_bound), Some(Ok(v))).ret

\* C33: for every element the Between of simple_validations accepts it
\* exactly when the Between of between.rs with the same bounds accepts it.
C33_SameDecision ==
    \A i \in Pulls : IsSome(In(i)) =>
        (IsOk(Out(i)) <=> IsOk(BetweenOn(In(i)[1].val)))

\* the pulls at which the source returns no rejection, in order
KeptPull(i) == ~IsErr(In(i))
Kept == SelectSeq([i \in Pulls |-> i], KeptPull)

\* chain c after the items xs of a source, and what it returned
RECURSIVE RunOver(_, _)
RunOver(c, xs) ==
    IF xs = <<>> THEN [chain |-> c, outs |-> <<>>]
    ELSE LET m == Len(xs)
             p == RunOver(c, SubSeq(xs, 1, m - 1))
             r == Chain_next(p.chain, Len(c), xs[m])
         IN [chain |-> [j \in 1 .. Len(c) |-> r[j].self],
             outs |-> Append(p.outs, r[Len(c)].ret)]

\* what an outcome decides: the item accepted, or the kind and the element
\* of the rejection
Decision(o) ==
    IF IsErr(o) THEN <<"Err", o[1].err.kind, o[1].err.element>>
    ELSE IF IsOk(o) THEN <<"Ok", "", Some(o[1].val)>>
    ELSE <<"None", "", None>>

\* C34: the run of an adapter and its run over the same source without the
\* rejections decide the same for every Ok item and at the end: accepted
\* or rejected, with the same kind of rejection and the same element; the
\* rejections of the source are returned as they are, and the validation
\* state of the adapter is the same after both runs.
C34_NonInterference ==
    LET pure == RunOver(<<Constructed(chain[1])>>, [k \in 1 .. Len(Kept) |-> In(Kept[k])])
    IN /\ \A k \in 1 .. Len(Kept) : Decision(Out(Kept[k])) = Decision(pure.outs[k])
       /\ \A i \in Pulls : IsErr(In(i)) => Out(i) = In(i)
       /\ ValidationState(chain[1]) = ValidationState(pure.chain[1])

\* look_back over 0, a rejection, 1, a rejection, 0: the last element is
\* rejected against 1, as it is when the rejections are left out
C34_Witness ==
    /\ chain[1].kind = "LookBack" /\ Window = 1
    /\ Len(flow) = 5
    /\ In(1) = Some(Ok(0)) /\ IsErr(In(2)) /\ In(3) = Some(Ok(1))
    /\ IsErr(In(4)) /\ In(5) = Some(Ok(0))
    /\ Out(1) = In(1) /\ Out(3) = In(3) /\ FailedAt(5) /\ FormerAt(5) = 1
    /\ Len(Kept) = 3

\* C35: the second of two instances of at_most(k), between(lo, hi),
\* ensure(p), const_over(f) or look_back_n(N, f, test) in a row returns at
\* every pull what it receives from the first, so the two in a row return
\* what the first alone returns; it rejects nothing, and it accepts every
\* element the first accepts.
C35_TwiceIsOnce ==
    LET once == Replay(<<Constructed(chain[1])>>, Len(flow))
    IN /\ \A i \in Pulls : Out(i) = flow[i][2] /\ ~RejectsAt(i, 2)
       /\ \A i \in Pulls : Out(i) = once.outs[i]

\* look_back_n with a window of MaxWindow over a source where the first
\* instance rejects an element after its warm-up and accepts a later one,
\* the second instance having tested that one too
C35_Witness ==
    /\ chain[1].kind = "LookBack" /\ Window = MaxWindow
    /\ \E i \in Pulls : RejectsAt(i, 1)
    /\ \E i \in Pulls :
          /\ NumCalls(i, 1, "validation") = 1 /\ NumCalls(i, 2, "validation") = 1
          /\ Out(i) = In(i)
          /\ \E h \in 1 .. (i - 1) : RejectsAt(h, 1)

\* C36: in every state the count of an at_most adapter is between 0 and
\* its cap and equals the number of Ok outcomes the adapter has returned;
\* no pull decreases it, and a pull at which the adapter returns a
\* rejection or None leaves it as it was.
C36_CounterInvariant ==
    /\ [](\A j \in Stages : IsAtMost(j) =>
             /\ 0 <= Forwarded(j) /\ Forwarded(j) <= chain[j].max_count
             /\ Forwarded(j) = Cardinality(OkOutOf(j)))
    /\ [][\A j \in Stages : IsAtMost(j) =>
             /\ Forwarded(j)' >= Forwarded(j)
             /\ ~IsOk(flow'[Len(flow')][j + 1]) => Forwarded(j)' = Forwarded(j)]_vars

\* at_most(1) of validation_adapters over 0, 1, 2: counter is at its cap
\* after the first element and stays there through two rejections
C36_Witness ==
    /\ chain[1].kind = "AtMostIter" /\ chain[1].max_count = 1
    /\ Len(flow) = 3
    /\ In(1) = Some(Ok(0)) /\ In(2) = Some(Ok(1)) /\ In(3) = Some(Ok(2))
    /\ Out(1) = In(1) /\ IsErr(Out(2)) /\ IsErr(Out(3))
    /\ chain[1].counter = 1

\* the slots of the buffer that hold the value of an accepted element: the
\* length of the Vec, or the slots of the array before the first that still
\* holds its default
Filled(st) == Min(st.pos, Window)
FilledAsStored(st) ==
    IF st.kind = "LookBackIter" THEN Len(st.value_store) = Filled(st)
    ELSE \A k \in (Filled(st) + 1) .. Len(st.value_store) : st.value_store[k] = Default

\* the index (from 0) the adapter reads at the pull this step adds, when it
\* tests, and the index it writes, when it accepts
ReadsAt == chain[1].pos % Window
WritesAt == IF chain[1].pos >= Window THEN chain[1].pos % Window ELSE chain[1].pos
TestsNow ==
    LET cs == calls'[Len(flow')][1]
    IN Cardinality({n \in 1 .. Len(cs) : cs[n].fn = "validation"}) = 1
AcceptsNow == chain'[1].pos = chain[1].pos + 1

\* the buffer after the step is the buffer before it with the slot WritesAt
\* written, and the value the test was handed is the slot ReadsAt
WriteIsAt ==
    LET old == chain[1].value_store
        new == chain'[1].value_store
    IN /\ WritesAt + 1 \in DOMAIN new
       /\ Len(new) = IF WritesAt = Len(old) THEN Len(old) + 1 ELSE Len(old)
       /\ \A k \in DOMAIN old : k # WritesAt + 1 => new[k] = old[k]
ReadIsAt ==
    /\ ReadsAt + 1 \in DOMAIN chain[1].value_store
    /\ LET c == calls'[Len(flow')][1][1]
           former == IF chain[1].kind = "LookBack" THEN c.args[1] ELSE c.args[2]
       IN former = chain[1].value_store[ReadsAt + 1]

\* C37 as stated: the filled slots are min(pos, N), pos is the number of Ok
\* outcomes returned, and every read and every write of the buffer is at an
\* index below the number of filled slots.
C37_BufferInvariantAsStated ==
    /\ [](/\ FilledAsStored(chain[1])
          /\ Len(chain[1].value_store) <= Window
          /\ chain[1].pos = Cardinality(OkOutOf(1)))
    /\ [][/\ TestsNow => ReadIsAt /\ ReadsAt < Filled(chain[1])
          /\ AcceptsNow => WriteIsAt /\ WritesAt < Filled(chain[1])]_vars

\* C37: with a window N >= 1 the filled slots are min(pos, N), the buffer
\* never has more than N slots, and pos is the number of Ok outcomes
\* returned; a test reads the slot pos % N, which is filled; an accepted
\* element is written to the slot pos % N once the buffer is full and to
\* the first slot not yet filled before that, an index below N in both
\* cases; with N = 0 pos stays 0 and the buffer is empty and never accessed.
C37_BufferInvariant ==
    /\ [](IF Window = 0
          THEN /\ chain[1].pos = 0 /\ chain[1].value_store = <<>>
               /\ \A i \in Pulls : calls[i][1] = <<>> /\ Out(i) = In(i)
          ELSE /\ FilledAsStored(chain[1])
               /\ Len(chain[1].value_store) <= Window
               /\ chain[1].pos = Cardinality(OkOutOf(1)))
    /\ [][Window >= 1 =>
             /\ TestsNow => ReadIsAt /\ ReadsAt < Filled(chain[1])
             /\ AcceptsNow =>
                   /\ WriteIsAt /\ WritesAt < Window
                   /\ WritesAt <= Filled(chain[1])
                   /\ WritesAt = Filled(chain[1]) <=> chain[1].pos < Window]_vars

\* the Vec-backed look_back with a window of MaxWindow, its buffer full, an
\* element rejected and a later one accepted over the oldest slot
C37_Witness ==
    /\ chain[1].kind = "LookBackIter" /\ Window = MaxWindow
    /\ Len(chain[1].value_store) = MaxWindow
    /\ chain[1].pos > MaxWindow
    /\ \E i \in Pulls : FailedAt(i)
    /\ TestedAt(Len(flow)) /\ Out(Len(flow)) = In(Len(flow))

====
